---- MODULE Spec2Model ----
(***************************************************************************)
(* Poster composition engine of product-poster-creator: the mosaic layout  *)
(* solver (lib/layoutSolver.ts), the typography fitter (lib/textFit.ts),   *)
(* the manipulation controller (components/ListingPreview.tsx) and the     *)
(* page state that drives them (pages/Index.tsx).                          *)
(*                                                                         *)
(* Real numbers of the program are modelled as exact rationals <<n, d>>    *)
(* with d > 0 and gcd(n, d) = 1.                                           *)
(***************************************************************************)
EXTENDS Integers, Sequences, FiniteSets, TLC

(***************************************************************************)
(* Rational arithmetic (the program's number type)                         *)
(***************************************************************************)
Abs(n) == IF n < 0 THEN 0 - n ELSE n

RECURSIVE GCD(_, _)
GCD(a, b) == IF b = 0 THEN a ELSE GCD(b, a % b)

Norm(n, d) ==
    LET g == GCD(Abs(n), d)
    IN  <<n \div g, d \div g>>

Rat(n, d) == Norm(n, d)
Zero == <<0, 1>>
One == <<1, 1>>
Two == <<2, 1>>

RAdd(p, q) ==
    LET g == GCD(p[2], q[2])
    IN  Norm(p[1] * (q[2] \div g) + q[1] * (p[2] \div g), (p[2] \div g) * q[2])

RNeg(p) == <<0 - p[1], p[2]>>
RSub(p, q) == RAdd(p, RNeg(q))

RMul(p, q) ==
    LET g1 == GCD(Abs(p[1]), q[2])
        g2 == GCD(Abs(q[1]), p[2])
    IN  <<(p[1] \div g1) * (q[1] \div g2), (p[2] \div g2) * (q[2] \div g1)>>

\* 1/q for q # 0
RInv(q) == IF q[1] < 0 THEN <<0 - q[2], 0 - q[1]>> ELSE <<q[2], q[1]>>
RDiv(p, q) == RMul(p, RInv(q))

RECURSIVE RLe(_, _)
\* p <= q, by integer parts and then the reciprocals of the fractional parts
\* (no cross product, so no 32-bit overflow)
RLe(p, q) ==
    LET ip == p[1] \div p[2]
        iq == q[1] \div q[2]
        rp == p[1] % p[2]
        rq == q[1] % q[2]
    IN  IF ip # iq THEN ip < iq
        ELSE IF rp = 0 THEN TRUE
        ELSE IF rq = 0 THEN FALSE
        ELSE RLe(<<q[2], rq>>, <<p[2], rp>>)
RLt(p, q) == ~RLe(q, p)
RMin(p, q) == IF RLe(p, q) THEN p ELSE q
RMax(p, q) == IF RLe(q, p) THEN p ELSE q
RAbs(p) == <<Abs(p[1]), p[2]>>

(***************************************************************************)
(* lib/layoutSolver.ts                                                     *)
(***************************************************************************)
\* a floor of one hundredth
MinLeafRatioHundredth == Rat(1, 100)
\* floor applied to a leaf's aspect ratio
MIN_LEAF_RATIO == Rat(1, 10)
\* lower bound of the single-photo width, as a fraction of the container
SINGLE_MIN_FRACTION == Rat(1, 4)

buildLeaf(index, ratio) ==
    [kind |-> "leaf", index |-> index, ratio |-> RMax(ratio, MIN_LEAF_RATIO)]

\* a split whose ratio is the sum of its children's in both orientations
buildSplitSum(orientation, left, right) ==
    [kind |-> "split", orientation |-> orientation, left |-> left, right |-> right,
     ratio |-> RAdd(left.ratio, right.ratio)]

buildSplit(orientation, left, right) ==
    [kind |-> "split", orientation |-> orientation, left |-> left, right |-> right,
     ratio |-> IF orientation = "vertical"
               THEN RAdd(left.ratio, right.ratio)
               ELSE RInv(RAdd(RInv(left.ratio), RInv(right.ratio)))]

RemoveAt(s, i) == SubSeq(s, 1, i - 1) \o SubSeq(s, i + 1, Len(s))

RECURSIVE Flatten(_, _)
\* concatenation of the sequences ss[i], ss[i+1], ...
Flatten(ss, i) == IF i > Len(ss) THEN <<>> ELSE ss[i] \o Flatten(ss, i + 1)

\* a search over the input order alone (no reordering explored)
generatePermutationsIdentityOnly(source) == <<source>>

RECURSIVE generatePermutations(_)
generatePermutations(source) ==
    IF Len(source) <= 1
    THEN <<source>>
    ELSE Flatten([idx \in 1..Len(source) |->
                    LET sub == generatePermutations(RemoveAt(source, idx))
                    IN  [k \in 1..Len(sub) |-> <<source[idx]>> \o sub[k]]], 1)

RECURSIVE buildTrees(_, _)
\* indices: a sequence of 0-based photo indices; ratios: the 1-based sequence
\* that holds the aspect ratio of photo i at position i + 1
buildTrees(indices, ratios) ==
    IF Len(indices) = 1
    THEN <<buildLeaf(indices[1], ratios[indices[1] + 1])>>
    ELSE Flatten([split \in 1..(Len(indices) - 1) |->
                    LET leftTrees == buildTrees(SubSeq(indices, 1, split), ratios)
                        rightTrees == buildTrees(SubSeq(indices, split + 1, Len(indices)), ratios)
                        nr == Len(rightTrees)
                    IN  [k \in 1..(Len(leftTrees) * nr * 2) |->
                            LET pair == (k - 1) \div 2
                                leftNode == leftTrees[(pair \div nr) + 1]
                                rightNode == rightTrees[(pair % nr) + 1]
                            IN  buildSplit(IF (k - 1) % 2 = 0 THEN "vertical" ELSE "horizontal",
                                           leftNode, rightNode)]], 1)

\* a vertical split that takes the full container height even when too wide
FitHeightUnbounded(container, totalRatio) == container.height

\* Math.min(container.height, container.width / totalRatio)
FitHeight(container, totalRatio) ==
    RMin(container.height, RDiv(container.width, totalRatio))

Rect(index, c) ==
    [index |-> index, x |-> c.x, y |-> c.y, width |-> c.width, height |-> c.height]

RECURSIVE layoutTree(_, _)

\* the degenerate split: one rect filling the container
DegenerateSplit(node, container) ==
    <<Rect(IF node.left.kind = "leaf" THEN node.left.index ELSE 0, container)>>

\* a vertical split (children side by side) once maxHeight is known
layoutVertical(node, container, totalRatio, maxHeight) ==
    LET usedWidth == RMul(totalRatio, maxHeight)
        offsetX == RAdd(container.x, RDiv(RSub(container.width, usedWidth), Two))
        offsetY == RAdd(container.y, RDiv(RSub(container.height, maxHeight), Two))
        leftWidth == RMul(maxHeight, node.left.ratio)
        rightWidth == RMul(maxHeight, node.right.ratio)
    IN  layoutTree(node.left,
                   [x |-> offsetX, y |-> offsetY,
                    width |-> leftWidth, height |-> maxHeight])
        \o layoutTree(node.right,
                      [x |-> RAdd(offsetX, leftWidth), y |-> offsetY,
                       width |-> rightWidth, height |-> maxHeight])

\* a horizontal split (children stacked) once availableWidth is known
layoutHorizontal(node, container, ratio, availableWidth) ==
    LET usedHeight == RDiv(availableWidth, ratio)
        offsetX == RAdd(container.x, RDiv(RSub(container.width, availableWidth), Two))
        offsetY == RAdd(container.y, RDiv(RSub(container.height, usedHeight), Two))
        topHeight == RDiv(availableWidth, node.left.ratio)
        bottomHeight == RDiv(availableWidth, node.right.ratio)
    IN  layoutTree(node.left,
                   [x |-> offsetX, y |-> offsetY,
                    width |-> availableWidth, height |-> topHeight])
        \o layoutTree(node.right,
                      [x |-> offsetX, y |-> RAdd(offsetY, topHeight),
                       width |-> availableWidth, height |-> bottomHeight])

\* node.left.ratio + node.right.ratio of a vertical split
TotalRatio(node) == RAdd(node.left.ratio, node.right.ratio)

layoutTree(node, container) ==
    IF node.kind = "leaf"
    THEN <<Rect(node.index, container)>>
    ELSE IF node.orientation = "vertical"
    THEN IF RLe(TotalRatio(node), Zero)
         THEN DegenerateSplit(node, container)
         ELSE layoutVertical(node, container, TotalRatio(node),
                             FitHeight(container, TotalRatio(node)))
    ELSE IF RLe(node.ratio, Zero)
         THEN DegenerateSplit(node, container)
         ELSE layoutHorizontal(node, container, node.ratio,
                               RMin(container.width, RMul(container.height, node.ratio)))

RECURSIVE SumArea(_, _)
\* layout.reduce((sum, rect) => sum + rect.width * rect.height, 0)
SumArea(layout, i) ==
    IF i > Len(layout) THEN Zero
    ELSE RAdd(RMul(layout[i].width, layout[i].height), SumArea(layout, i + 1))

Container(containerWidth, containerHeight) ==
    [x |-> Zero, y |-> Zero, width |-> containerWidth, height |-> containerHeight]

\* every candidate layout of the container, in enumeration order
Candidates(aspectRatios, containerWidth, containerHeight) ==
    LET indices == [i \in 1..Len(aspectRatios) |-> i - 1]
        permutations == generatePermutations(indices)
        trees == Flatten([p \in 1..Len(permutations) |->
                            buildTrees(permutations[p], aspectRatios)], 1)
    IN  [t \in 1..Len(trees) |->
            layoutTree(trees[t], Container(containerWidth, containerHeight))]

\* the comparison written as score >= bestScore: the last of several equal
\* candidates wins
KeepBestOrEqual(best, layout) ==
    LET score == SumArea(layout, 1)
    IN  IF ~best.found \/ RLe(best.score, score)
        THEN [found |-> TRUE, score |-> score, layout |-> layout]
        ELSE best

\* if (score > bestScore) { bestScore = score; bestLayout = layout; }
\* best = [found, score, layout]; found = FALSE stands for bestScore = -Infinity
KeepBest(best, layout) ==
    LET score == SumArea(layout, 1)
    IN  IF ~best.found \/ RLt(best.score, score)
        THEN [found |-> TRUE, score |-> score, layout |-> layout]
        ELSE best

RECURSIVE SearchTrees(_, _, _, _)

\* the rest of trees.forEach after one tree.  KeepBest always returns
\* found = TRUE; testing it makes TLC evaluate the accumulator before the next
\* iteration instead of building a chain of unevaluated updates.
SearchTreesAfter(trees, t, container, next) ==
    IF next.found THEN SearchTrees(trees, t + 1, container, next) ELSE next

\* trees.forEach((tree) => ...) of computeOptimalLayout
SearchTrees(trees, t, container, best) ==
    IF t > Len(trees) THEN best
    ELSE SearchTreesAfter(trees, t, container,
                          KeepBest(best, layoutTree(trees[t], container)))

RECURSIVE SearchPermutations(_, _, _, _, _)

\* the rest of permutations.forEach after one permutation
SearchPermutationsAfter(permutations, p, aspectRatios, container, next) ==
    IF next.found
    THEN SearchPermutations(permutations, p + 1, aspectRatios, container, next)
    ELSE next

\* permutations.forEach((perm) => ...) of computeOptimalLayout
SearchPermutations(permutations, p, aspectRatios, container, best) ==
    IF p > Len(permutations) THEN best
    ELSE SearchPermutationsAfter(permutations, p, aspectRatios, container,
             SearchTrees(buildTrees(permutations[p], aspectRatios), 1, container, best))

RECURSIVE SortByIndex(_)
\* insertion sort on rect.index (Array.prototype.sort is stable)
SortByIndex(rects) ==
    IF Len(rects) <= 1 THEN rects
    ELSE LET rest == SortByIndex(Tail(rects))
             h == Head(rects)
             before == SelectSeq(rest, LAMBDA r : r.index < h.index)
             after == SelectSeq(rest, LAMBDA r : r.index >= h.index)
         IN  before \o <<h>> \o after

RECURSIVE MinX(_, _)
MinX(rects, i) ==
    IF i = Len(rects) THEN rects[i].x ELSE RMin(rects[i].x, MinX(rects, i + 1))

RECURSIVE MaxRight(_, _)
MaxRight(rects, i) ==
    IF i > Len(rects) THEN Zero
    ELSE RMax(RAdd(rects[i].x, rects[i].width), MaxRight(rects, i + 1))

\* a post-processing that leaves the rects where the solver centred them
NormalizedUnshifted(sorted, minX, maxRight, containerWidth) ==
    [rects |-> sorted,
     usedWidth |-> RMin(RMax(RSub(maxRight, minX), One), containerWidth)]

\* lines 244-256: shift the sorted rects to x = 0 and report the used width
NormalizedSolution(sorted, minX, maxRight, containerWidth) ==
    [rects |-> [i \in 1..Len(sorted) |->
                   [sorted[i] EXCEPT !.x = RSub(sorted[i].x, minX)]],
     usedWidth |-> RMin(RMax(RSub(maxRight, minX), One), containerWidth)]

\* lines 240-256 for the best layout found
SortedSolution(sorted, containerWidth) ==
    NormalizedSolution(sorted, MinX(sorted, 1), MaxRight(sorted, 1), containerWidth)

\* lines 196-213: a single photo
SingleSolution(width, containerHeight) ==
    [rects |-> <<[index |-> 0, x |-> Zero, y |-> Zero,
                  width |-> width, height |-> containerHeight]>>,
     usedWidth |-> width]

\* bestLayout after the search over every permutation and every tree
BestLayout(aspectRatios, containerWidth, containerHeight) ==
    SearchPermutations(generatePermutations([i \in 1..Len(aspectRatios) |-> i - 1]), 1,
                       aspectRatios, Container(containerWidth, containerHeight),
                       [found |-> FALSE, score |-> Zero, layout |-> <<>>]).layout

computeOptimalLayout(aspectRatios, containerWidth, containerHeight) ==
    IF Len(aspectRatios) = 0
    THEN [rects |-> <<>>, usedWidth |-> containerWidth]
    ELSE IF Len(aspectRatios) = 1
    THEN SingleSolution(
             RMin(containerWidth,
                  RMax(RMul(containerHeight,
                            IF aspectRatios[1] = Zero THEN One ELSE aspectRatios[1]),
                       RMul(containerWidth, SINGLE_MIN_FRACTION))),
             containerHeight)
    ELSE SortedSolution(
             SortByIndex(BestLayout(aspectRatios, containerWidth, containerHeight)),
             containerWidth)

(***************************************************************************)
(* lib/constants and pages/Index.tsx: canvas constants, layout preparation *)
(***************************************************************************)
\* the canonical export resolution, a fixed 16:10 canvas
CANVAS_WIDTH == 1920
CANVAS_HEIGHT == 1200
\* the text region keeps at least a third of the canvas width
MIN_TEXT_RATIO == <<1, 3>>

CanvasWidth == <<CANVAS_WIDTH, 1>>
CanvasHeight == <<CANVAS_HEIGHT, 1>>
MIN_TEXT_WIDTH == RMul(CanvasWidth, MIN_TEXT_RATIO)
MAX_PHOTO_WIDTH == RSub(CanvasWidth, MIN_TEXT_WIDTH)
DEFAULT_PHOTO_WIDTH == RDiv(CanvasWidth, Two)

\* naturalWidth / naturalHeight of the files a user can pick, by file
FileAspects == <<One, Two, <<1, 2>> >>
Files == 1..Len(FileAspects)

\* readImageMetadata(file).aspect
AspectOf(file) == FileAspects[file]

\* buildFrameId(file, index): file identity and ordinal position
buildFrameId(file, index) == <<file, index>>

\* Math.min(Math.max(usedWidth, MAX_PHOTO_WIDTH * 0.25), MAX_PHOTO_WIDTH)
EffectiveWidth(usedWidth) ==
    RMin(RMax(usedWidth, RMul(MAX_PHOTO_WIDTH, <<1, 4>>)), MAX_PHOTO_WIDTH)

\* Number.isFinite(usedWidth) && usedWidth > 0 ? usedWidth : DEFAULT_PHOTO_WIDTH
SafeUsedWidth(usedWidth) ==
    IF RLt(Zero, usedWidth) THEN usedWidth ELSE DEFAULT_PHOTO_WIDTH

\* rects.find((item) => item.index === index) ?? the full-area rect
FindRect(rects, index, effectiveWidth) ==
    IF \E i \in 1..Len(rects) : rects[i].index = index
    THEN rects[CHOOSE i \in 1..Len(rects) :
                   /\ rects[i].index = index
                   /\ \A j \in 1..(i - 1) : rects[j].index # index]
    ELSE [index |-> index, x |-> Zero, y |-> Zero,
          width |-> effectiveWidth, height |-> CanvasHeight]

\* the NormalizedRect of a solver rect
NormalizedLayout(rect, effectiveWidth) ==
    [x |-> RDiv(rect.x, effectiveWidth),
     y |-> RDiv(rect.y, CanvasHeight),
     width |-> RDiv(rect.width, effectiveWidth),
     height |-> RDiv(rect.height, CanvasHeight)]

\* nextFrames of the layout-preparation effect, for a solved layout
FramesFor(files, rects, effectiveWidth) ==
    [i \in 1..Len(files) |->
        [id |-> buildFrameId(files[i], i - 1),
         aspectRatio |-> AspectOf(files[i]),
         layout |-> NormalizedLayout(FindRect(rects, i - 1, effectiveWidth),
                                     effectiveWidth)]]

\* URL.createObjectURL(file) of readImageMetadata: every call makes a new URL,
\* named by the effect run and the position of the file
BatchUrls(b, files) == [i \in 1..Len(files) |-> <<b, i>>]

\* src: meta.url of nextFrames
WithSrc(list, urls) ==
    [i \in 1..Len(list) |->
        [id |-> list[i].id, aspectRatio |-> list[i].aspectRatio,
         layout |-> list[i].layout, src |-> urls[i]]]

\* the set of the elements of a list
Range(list) == {list[i] : i \in 1..Len(list)}

\* the solve of the layout-preparation effect
SolveFiles(files) ==
    computeOptimalLayout([i \in 1..Len(files) |-> AspectOf(files[i])],
                         MAX_PHOTO_WIDTH, CanvasHeight)

\* what a successful decode batch publishes: <<frames, photoAreaWidth>>
PreparedFor(files, solution) ==
    <<FramesFor(files, solution.rects, EffectiveWidth(SafeUsedWidth(solution.usedWidth))),
      EffectiveWidth(SafeUsedWidth(solution.usedWidth))>>

PreparedLayout(files) == PreparedFor(files, SolveFiles(files))

\* a focus that brings the frame to the start of the render order
FocusFrameToStart(list, id) ==
    IF \E i \in 1..Len(list) : list[i].id = id
    THEN SelectSeq(list, LAMBDA f : f.id = id) \o SelectSeq(list, LAMBDA f : f.id # id)
    ELSE list

\* handleFocusFrame: the frame steps to the end of the render order
FocusFrame(list, id) ==
    IF \E i \in 1..Len(list) : list[i].id = id
    THEN SelectSeq(list, LAMBDA f : f.id # id) \o SelectSeq(list, LAMBDA f : f.id = id)
    ELSE list

\* handleFrameChange: the frame with this id gets the layout
ChangeFrame(list, id, layout) ==
    [i \in 1..Len(list) |->
        IF list[i].id = id THEN [list[i] EXCEPT !.layout = layout] ELSE list[i]]

\* handleResetLayout for a solve of the frames in their current order
ResetFramesFor(list, rects, effectiveWidth) ==
    [i \in 1..Len(list) |->
        [list[i] EXCEPT !.layout =
            NormalizedLayout(FindRect(rects, i - 1, effectiveWidth), effectiveWidth)]]

\* what handleResetLayout publishes: <<frames, photoAreaWidth>>
ResetFor(list, solution) ==
    <<ResetFramesFor(list, solution.rects, EffectiveWidth(solution.usedWidth)),
      EffectiveWidth(solution.usedWidth)>>

ResetLayoutOf(list) ==
    ResetFor(list, computeOptimalLayout([i \in 1..Len(list) |-> list[i].aspectRatio],
                                        MAX_PHOTO_WIDTH, CanvasHeight))

(***************************************************************************)
(* components/ListingPreview.tsx: the manipulation controller              *)
(***************************************************************************)
MIN_FRAME_WIDTH_PX == 80
WIDTH_MAX == 1
SNAP_THRESHOLD == <<1, 50>>
\* the 0.04 guardrail of the resize handler
MIN_WIDTH_GUARD == <<1, 25>>
Million == 1000000

\* const clamp = (value, min, max) => Math.min(Math.max(value, min), max)
clamp(value, min, max) == RMin(RMax(value, min), max)

\* a non-negative rational rounded to 6 decimals, half up
Round6Abs(n, d, g) ==
    Norm((n \div d) * Million
             + (2 * ((n % d) * (Million \div g)) + (d \div g)) \div (2 * (d \div g)),
         Million)

\* Number(value.toFixed(6))
Round6(p) ==
    IF p[1] < 0
    THEN RNeg(Round6Abs(0 - p[1], p[2], GCD(p[2], Million)))
    ELSE Round6Abs(p[1], p[2], GCD(p[2], Million))

\* the layout handleFrameUpdate hands to onFrameChange
RoundedLayout(layout) ==
    [x |-> Round6(layout.x), y |-> Round6(layout.y),
     width |-> Round6(layout.width), height |-> Round6(layout.height)]

\* normalizedHeightFromWidth(width, aspectRatio, containerAspect)
normalizedHeightFromWidth(width, aspectRatio, containerAspect) ==
    IF RLt(width, Zero) THEN Zero
    ELSE IF RLe(aspectRatio, Zero) \/ RLe(containerAspect, Zero)
    THEN RMax(Zero, RMin(One, width))
    ELSE RMax(Zero, RMin(One, RMul(width, RDiv(containerAspect, aspectRatio))))

\* photoRatio of the preview for a photoAreaWidth
photoRatio(areaWidth) ==
    RSub(One, RMax(RSub(One, RDiv(RMin(areaWidth, RMul(CanvasWidth, <<2, 3>>)),
                                  CanvasWidth)),
                   MIN_TEXT_RATIO))

\* getContainerMetrics(): width and height are positive for every size drawn
getContainerMetrics(size, areaWidth) ==
    [width |-> RMul(size[1], photoRatio(areaWidth)), height |-> size[2]]

MetricsAspect(metrics) == RDiv(metrics.width, metrics.height)

\* the coordinate of a layout on an axis, and its extent
AxisPos(layout, axis) == IF axis = "x" THEN layout.x ELSE layout.y
AxisSize(layout, axis) == IF axis = "x" THEN layout.width ELSE layout.height

RECURSIVE OtherCandidates(_, _, _, _, _)
\* the four candidates each other frame contributes, in frame order
OtherCandidates(list, i, size, axis, frameId) ==
    IF i > Len(list) THEN <<>>
    ELSE (IF list[i].id = frameId THEN <<>>
          ELSE <<AxisPos(list[i].layout, axis),
                 RAdd(AxisPos(list[i].layout, axis), AxisSize(list[i].layout, axis)),
                 RSub(AxisPos(list[i].layout, axis), size),
                 RSub(RAdd(AxisPos(list[i].layout, axis), AxisSize(list[i].layout, axis)),
                      size)>>)
         \o OtherCandidates(list, i + 1, size, axis, frameId)

\* candidates of snapCoordinate: 0, 1 - size, then the other frames' edges
SnapCandidates(list, size, axis, frameId) ==
    <<Zero, RSub(One, size)>> \o OtherCandidates(list, 1, size, axis, frameId)

InThreshold(value, candidate) == RLe(RAbs(RSub(value, candidate)), SNAP_THRESHOLD)

RECURSIVE FirstInThreshold(_, _, _)
\* for (const candidate of candidates) if (|value - candidate| <= T) return candidate
FirstInThreshold(candidates, i, value) ==
    IF i > Len(candidates) THEN value
    ELSE IF InThreshold(value, candidates[i]) THEN candidates[i]
    ELSE FirstInThreshold(candidates, i + 1, value)

snapCoordinate(list, value, size, axis, frameId) ==
    FirstInThreshold(SnapCandidates(list, size, axis, frameId), 1, value)

\* clampPosition(value, size)
clampPosition(value, size) ==
    RMin(RMax(Zero, RSub(One, size)), RMax(Zero, value))

\* frames.find((item) => item.id === id)
FrameById(list, id) == list[CHOOSE i \in 1..Len(list) : list[i].id = id]
HasFrame(list, id) == \E i \in 1..Len(list) : list[i].id = id

\* (event.clientX - startX) / metrics.width
DeltaX(point, state, metrics) == RDiv(RSub(point[1], state.startX), metrics.width)
DeltaY(point, state, metrics) == RDiv(RSub(point[2], state.startY), metrics.height)

\* the layout the drag branch of handlePointerMove passes to handleFrameUpdate
DragLayout(list, drag, frame, metrics, point) ==
    [frame.layout EXCEPT
        !.x = clampPosition(
                  snapCoordinate(list, RAdd(drag.initialRect.x, DeltaX(point, drag, metrics)),
                                 frame.layout.width, "x", frame.id),
                  frame.layout.width),
        !.y = clampPosition(
                  snapCoordinate(list, RAdd(drag.initialRect.y, DeltaY(point, drag, metrics)),
                                 frame.layout.height, "y", frame.id),
                  frame.layout.height)]

\* Math.max(MIN_FRAME_WIDTH_PX / metrics.width, 0.04)
MinWidthNormalized(metrics) ==
    RMax(RDiv(<<MIN_FRAME_WIDTH_PX, 1>>, metrics.width), MIN_WIDTH_GUARD)

\* maxWidthFromHeight of the resize branch
ResizeMaxWidthFromHeight(availableHeight, frame, metrics) ==
    IF RLt(Zero, availableHeight)
    THEN RMul(availableHeight, RDiv(frame.aspectRatio, MetricsAspect(metrics)))
    ELSE Zero

\* maxWidthBound of the resize branch, from the rect recorded at pointer-down
ResizeMaxWidthBound(resize, frame, metrics) ==
    RMax(Zero,
         RMin(<<WIDTH_MAX, 1>>,
              RMin(RMax(Zero, RSub(One, resize.initialRect.x)),
                   ResizeMaxWidthFromHeight(RMax(Zero, RSub(One, resize.initialRect.y)),
                                            frame, metrics))))

\* nextWidth = clamp(candidateWidth, minWidth, maxWidth)
ResizeNextWidth(candidateWidth, minWidthNormalized, maxWidthBound) ==
    clamp(candidateWidth,
          RMin(minWidthNormalized, maxWidthBound),
          RMax(RMin(minWidthNormalized, maxWidthBound), maxWidthBound))

\* the frame's layout with the new width and the height derived from it
ResizedLayout(frame, metrics, nextWidth) ==
    [frame.layout EXCEPT
        !.width = nextWidth,
        !.height = normalizedHeightFromWidth(nextWidth, frame.aspectRatio,
                                             MetricsAspect(metrics))]

\* the layout the resize branch of handlePointerMove passes to handleFrameUpdate
ResizeLayout(resize, frame, metrics, point) ==
    ResizedLayout(frame, metrics,
        ResizeNextWidth(RAdd(resize.initialRect.width, DeltaX(point, resize, metrics)),
                        MinWidthNormalized(metrics),
                        ResizeMaxWidthBound(resize, frame, metrics)))

\* pinchState.current as handleTouchStart records it
PinchStateFor(frame, metrics, distance) ==
    [id |-> frame.id,
     initialDistance |-> distance,
     initialWidth |-> RMul(frame.layout.width, metrics.width),
     initialHeight |-> RMul(frame.layout.height, metrics.height),
     centerX |-> RMul(RAdd(frame.layout.x, RDiv(frame.layout.width, Two)), metrics.width),
     centerY |-> RMul(RAdd(frame.layout.y, RDiv(frame.layout.height, Two)), metrics.height)]

\* Math.min(center * 2, (extent - center) * 2)
TwiceNearestEdge(center, extent) ==
    RMin(RMul(center, Two), RMul(RSub(extent, center), Two))

\* nextWidthPx of handleTouchMove
PinchNextWidthPx(pinch, frame, metrics, distance) ==
    clamp(RMul(pinch.initialWidth, RDiv(distance, pinch.initialDistance)),
          RMax(<<MIN_FRAME_WIDTH_PX, 1>>,
               RMul(RMul(frame.layout.width, metrics.width), <<1, 2>>)),
          RMin(TwiceNearestEdge(pinch.centerX, metrics.width),
               RMin(RMul(TwiceNearestEdge(pinch.centerY, metrics.height),
                         frame.aspectRatio),
                    metrics.width)))

\* the layout handleTouchMove passes to handleFrameUpdate, for the pixel size
PinchedLayout(list, pinch, frame, metrics, nextWidthPx, nextHeightPx) ==
    [x |-> clampPosition(
               snapCoordinate(list,
                              RDiv(RSub(pinch.centerX, RDiv(nextWidthPx, Two)), metrics.width),
                              RDiv(nextWidthPx, metrics.width), "x", frame.id),
               RDiv(nextWidthPx, metrics.width)),
     y |-> clampPosition(
               snapCoordinate(list,
                              RDiv(RSub(pinch.centerY, RDiv(nextHeightPx, Two)), metrics.height),
                              RDiv(nextHeightPx, metrics.height), "y", frame.id),
               RDiv(nextHeightPx, metrics.height)),
     width |-> RDiv(nextWidthPx, metrics.width),
     height |-> RDiv(nextHeightPx, metrics.height)]

PinchLayoutAt(list, pinch, frame, metrics, nextWidthPx) ==
    PinchedLayout(list, pinch, frame, metrics, nextWidthPx,
                  RDiv(nextWidthPx, frame.aspectRatio))

PinchLayout(list, pinch, frame, metrics, distance) ==
    PinchLayoutAt(list, pinch, frame, metrics,
                  PinchNextWidthPx(pinch, frame, metrics, distance))

(***************************************************************************)
(* lib/textFit.ts                                                          *)
(* A text is a sequence of paragraphs, a paragraph a sequence of word      *)
(* lengths (<<>> for a blank paragraph); a line is its number of chars.    *)
(***************************************************************************)
\* ctx.measureText(line).width for a font of the given size: every glyph
\* advances by one em
MeasureText(chars, size) == chars * size

\* rawText.trim(): leading and trailing blank paragraphs go
RECURSIVE TrimLeft(_)
TrimLeft(text) ==
    IF Len(text) > 0 /\ Head(text) = <<>> THEN TrimLeft(Tail(text)) ELSE text

RECURSIVE TrimRight(_)
TrimRight(text) ==
    IF Len(text) > 0 /\ text[Len(text)] = <<>>
    THEN TrimRight(SubSeq(text, 1, Len(text) - 1))
    ELSE text

TrimText(text) == TrimRight(TrimLeft(text))

\* text.length > 0 ? text : ' ' -- a single blank paragraph
WordsOrBlank(text) == IF Len(text) > 0 THEN text ELSE << <<>> >>

\* lines.slice(0, maxLines)
Slice(lines, maxLines) ==
    IF maxLines >= 0
    THEN SubSeq(lines, 1, IF maxLines < Len(lines) THEN maxLines ELSE Len(lines))
    ELSE SubSeq(lines, 1, Len(lines) + maxLines)

\* if (lines.length < maxLines) lines.push(line)
PushIfRoom(lines, line, maxLines) ==
    IF Len(lines) < maxLines THEN Append(lines, line) ELSE lines

\* currentLine ? `${currentLine} ${word}` : word
NextLine(currentLine, word) ==
    IF currentLine > 0 THEN currentLine + 1 + word ELSE word

RECURSIVE WrapWords(_, _, _, _, _, _, _)
\* words.forEach of wrapText; returns <<currentLine, lines>>
WrapWords(words, w, currentLine, lines, size, maxWidth, maxLines) ==
    IF w > Len(words) THEN <<currentLine, lines>>
    ELSE IF RLt(maxWidth, <<MeasureText(NextLine(currentLine, words[w]), size), 1>>)
            /\ currentLine > 0
    THEN WrapWords(words, w + 1, words[w], PushIfRoom(lines, currentLine, maxLines),
                   size, maxWidth, maxLines)
    ELSE WrapWords(words, w + 1, NextLine(currentLine, words[w]), lines,
                   size, maxWidth, maxLines)

\* lines 50-59: push the last line of a paragraph, then the paragraph break
CloseParagraph(wrapped, hasMoreParagraphs, maxLines) ==
    IF hasMoreParagraphs
    THEN PushIfRoom(IF wrapped[1] > 0 THEN PushIfRoom(wrapped[2], wrapped[1], maxLines)
                                      ELSE wrapped[2],
                    0, maxLines)
    ELSE IF wrapped[1] > 0 THEN PushIfRoom(wrapped[2], wrapped[1], maxLines)
    ELSE wrapped[2]

RECURSIVE WrapParagraphs(_, _, _, _, _, _)

\* if (lines.length >= maxLines) return lines.slice(0, maxLines); else go on
WrapNext(paragraphs, i, lines, size, maxWidth, maxLines) ==
    IF Len(lines) >= maxLines THEN Slice(lines, maxLines)
    ELSE WrapParagraphs(paragraphs, i + 1, lines, size, maxWidth, maxLines)

\* the paragraph loop of wrapText
WrapParagraphs(paragraphs, i, lines, size, maxWidth, maxLines) ==
    IF i > Len(paragraphs) THEN lines
    ELSE IF paragraphs[i] = <<>>
    THEN WrapNext(paragraphs, i, PushIfRoom(lines, 0, maxLines), size, maxWidth, maxLines)
    ELSE WrapNext(paragraphs, i,
                  CloseParagraph(WrapWords(paragraphs[i], 1, 0, lines, size, maxWidth,
                                           maxLines),
                                 i < Len(paragraphs), maxLines),
                  size, maxWidth, maxLines)

wrapText(text, size, maxWidth, maxLines) ==
    WrapParagraphs(text, 1, <<>>, size, maxWidth, maxLines)

\* a height test that forgets the number of lines
BlockFitsOneLine(lines, size, options) ==
    RLe(RMul(<<size, 1>>, options.lineHeightMultiplier), options.maxHeight)

\* lines.length * size * lineHeightMultiplier <= maxHeight
BlockFits(lines, size, options) ==
    RLe(RMul(<<Len(lines) * size, 1>>, options.lineHeightMultiplier),
        options.maxHeight)

FitResult(size, lines, options) ==
    [fontSize |-> size,
     lineHeight |-> RMul(<<size, 1>>, options.lineHeightMultiplier),
     lines |-> lines]

\* lines 92-99: the fallback at minFontSize
FitFallback(lines, options) ==
    FitResult(options.minFontSize, IF Len(lines) > 0 THEN lines ELSE <<0>>, options)

RECURSIVE FitFrom(_, _, _)

\* lines 80-89 for one size
FitAt(words, options, size, lines) ==
    IF BlockFits(lines, size, options) THEN FitResult(size, lines, options)
    ELSE FitFrom(words, options, size - 1)

\* for (let size = ...; size >= options.minFontSize; size -= 1)
FitFrom(words, options, size) ==
    IF size >= options.minFontSize
    THEN FitAt(words, options, size,
               wrapText(words, size, options.maxWidth, options.maxLines))
    ELSE FitFallback(wrapText(words, options.minFontSize, options.maxWidth,
                              options.maxLines),
                     options)

\* a loop that starts one size above maxFontSize
FirstSizeAbove(options) == options.maxFontSize + 1

\* let size = options.maxFontSize
FirstSize(options) == options.maxFontSize

fitTextBlock(rawText, options) ==
    FitFrom(WordsOrBlank(TrimText(rawText)), options, FirstSize(options))

RECURSIVE PriceSizeFrom(_, _, _, _)
\* the loop of fitPriceFontSize
PriceSizeFrom(chars, maxWidth, size, minFontSize) ==
    IF size < minFontSize THEN minFontSize
    ELSE IF RLe(<<MeasureText(chars, size), 1>>, maxWidth) THEN size
    ELSE PriceSizeFrom(chars, maxWidth, size - 1, minFontSize)

fitPriceFontSize(chars, maxWidth, maxFontSize, minFontSize) ==
    PriceSizeFrom(chars, maxWidth, maxFontSize, minFontSize)

(***************************************************************************)
(* Typography of the text column: components/ListingPreview.tsx (preview)  *)
(* and lib/generateListingImage.ts (export). Both compute in canvas        *)
(* pixels; the preview then scales by previewHeight / CANVAS_HEIGHT.       *)
(***************************************************************************)
\* Math.floor of a non-negative number
RFloor(r) == r[1] \div r[2]

PADDING_X == 56
PADDING_Y == 64
LOCATION_WIDTH_RATIO == <<4, 5>>
\* lineHeightMultiplier of the description block at the two call sites
PreviewDescriptionMultiplier == <<32, 25>>
ExportDescriptionMultiplier == <<33, 25>>
\* lower bound of the inner text width at the two call sites
PreviewMinInnerWidth == 80
ExportMinInnerWidth == 100

TitleOptions(innerWidth, availableHeight) ==
    [maxWidth |-> innerWidth, maxHeight |-> RMul(availableHeight, <<9, 20>>),
     maxLines |-> 3, maxFontSize |-> 56, minFontSize |-> 28,
     lineHeightMultiplier |-> <<28, 25>>]

LocationOptions(innerWidth, priceLineHeight) ==
    [maxWidth |-> RMul(innerWidth, LOCATION_WIDTH_RATIO),
     maxHeight |-> RMul(priceLineHeight, <<3, 2>>),
     maxLines |-> 1, maxFontSize |-> 34, minFontSize |-> 18,
     lineHeightMultiplier |-> <<6, 5>>]

DescriptionOptions(innerWidth, remainingHeight, multiplier) ==
    [maxWidth |-> innerWidth, maxHeight |-> remainingHeight,
     maxLines |-> 60, maxFontSize |-> 44, minFontSize |-> 16,
     lineHeightMultiplier |-> multiplier]

\* titleFit.fontSize + (titleFit.lines.length - 1) * titleFit.lineHeight
TitleBlockHeight(titleFit) ==
    IF Len(titleFit.lines) > 0
    THEN RAdd(<<titleFit.fontSize, 1>>,
              RMul(<<Len(titleFit.lines) - 1, 1>>, titleFit.lineHeight))
    ELSE Zero

\* descriptionStartY: below the price line, the title block and the divider
DescriptionStartY(titleFit, priceLineHeight) ==
    RAdd(RAdd(RAdd(<<PADDING_Y, 1>>, RMul(priceLineHeight, <<7, 5>>)),
              RAdd(TitleBlockHeight(titleFit), RMul(titleFit.lineHeight, <<3, 5>>))),
         <<24, 1>>)

\* remainingHeightCanvas
RemainingHeight(titleFit, priceLineHeight) ==
    RMax(RSub(<<CANVAS_HEIGHT - PADDING_Y, 1>>,
              DescriptionStartY(titleFit, priceLineHeight)),
         Zero)

\* blockHeightCanvas
BlockHeight(fit) == RMul(<<Len(fit.lines), 1>>, fit.lineHeight)

\* perLineCap || maxFontSize
PerLineCap(options, fit) ==
    IF RFloor(RDiv(RDiv(options.maxHeight,
                        <<IF Len(fit.lines) > 1 THEN Len(fit.lines) ELSE 1, 1>>),
                   options.lineHeightMultiplier)) = 0
    THEN options.maxFontSize
    ELSE RFloor(RDiv(RDiv(options.maxHeight,
                          <<IF Len(fit.lines) > 1 THEN Len(fit.lines) ELSE 1, 1>>),
                     options.lineHeightMultiplier))

Min(a, b) == IF a <= b THEN a ELSE b
Max(a, b) == IF a >= b THEN a ELSE b

\* a cap that forgets the ceiling of 56
DynamicCapUncapped(options, fit) ==
    Max(options.minFontSize, PerLineCap(options, fit))

DynamicCap(options, fit) ==
    Max(options.minFontSize, Min(56, PerLineCap(options, fit)))

\* desiredSize, for a fill ratio below 0.65
DesiredSize(fit, fillRatio, dynamicCap) ==
    Min(dynamicCap,
        Max(fit.fontSize + 1,
            RFloor(RDiv(<<fit.fontSize, 1>>, RMax(fillRatio, <<3, 20>>)))))

\* the second fit of a description that fills less than 65% of its box
RefitWith(text, options, fit, fillRatio, dynamicCap) ==
    IF RLt(fillRatio, <<13, 20>>) /\ dynamicCap > fit.fontSize
       /\ DesiredSize(fit, fillRatio, dynamicCap) > fit.fontSize
    THEN fitTextBlock(text, [options EXCEPT
                               !.maxFontSize = DesiredSize(fit, fillRatio, dynamicCap)])
    ELSE fit

Refit(text, options, fit) ==
    IF RLt(Zero, options.maxHeight) /\ RLt(Zero, BlockHeight(fit))
    THEN RefitWith(text, options, fit, RDiv(BlockHeight(fit), options.maxHeight),
                   DynamicCap(options, fit))
    ELSE fit

DescriptionFit(text, options) == Refit(text, options, fitTextBlock(text, options))

\* the blocks once the title fit and the price size are known
TypographyWithTitle(location, description, innerWidth, multiplier, priceFontSize, priceLineHeight, titleFit) ==
    [title |-> titleFit,
     price |-> [fontSize |-> <<priceFontSize, 1>>, lineHeight |-> priceLineHeight],
     location |-> fitTextBlock(location, LocationOptions(innerWidth, priceLineHeight)),
     description |->
         DescriptionFit(description,
                        DescriptionOptions(innerWidth,
                                           RemainingHeight(titleFit, priceLineHeight),
                                           multiplier)),
     titleMarginTop |-> RMul(priceLineHeight, <<2, 5>>),
     dividerMarginTop |-> RMul(titleFit.lineHeight, <<3, 5>>),
     descriptionMarginTop |-> <<24, 1>>]

TypographyWithPrice(title, location, description, innerWidth, availableHeight, multiplier, priceFontSize) ==
    TypographyWithTitle(location, description, innerWidth, multiplier, priceFontSize,
                        RMul(<<priceFontSize, 1>>, <<11, 10>>),
                        fitTextBlock(title, TitleOptions(innerWidth, availableHeight)))

\* the typography in canvas pixels for an inner width and an available height
CanvasTypography(title, priceChars, location, description, innerWidth, availableHeight, multiplier) ==
    TypographyWithPrice(title, location, description, innerWidth, availableHeight,
                        multiplier, fitPriceFontSize(priceChars, innerWidth, 48, 24))

\* innerCanvasWidth of the preview
PreviewInnerWidth(areaWidth) ==
    RMax(RSub(RSub(CanvasWidth, RMin(areaWidth, RMul(CanvasWidth, <<2, 3>>))),
              <<2 * PADDING_X, 1>>),
         <<PreviewMinInnerWidth, 1>>)

\* innerTextWidth of the export
ExportInnerWidth(areaWidth) ==
    RMax(RSub(RSub(CanvasWidth,
                   RMin(RMax(areaWidth, One), RMul(CanvasWidth, <<2, 3>>))),
              <<2 * PADDING_X, 1>>),
         <<ExportMinInnerWidth, 1>>)

ScaledFit(fit, scale) ==
    [lines |-> fit.lines,
     fontSize |-> RMul(<<fit.fontSize, 1>>, scale),
     lineHeight |-> RMul(fit.lineHeight, scale)]

\* every pixel metric of a canvas typography times one factor
ScaledTypography(t, scale) ==
    [title |-> ScaledFit(t.title, scale),
     price |-> [fontSize |-> RMul(t.price.fontSize, scale),
                lineHeight |-> RMul(t.price.lineHeight, scale)],
     location |-> ScaledFit(t.location, scale),
     description |-> ScaledFit(t.description, scale),
     titleMarginTop |-> RMul(t.titleMarginTop, scale),
     dividerMarginTop |-> RMul(t.dividerMarginTop, scale),
     descriptionMarginTop |-> RMul(t.descriptionMarginTop, scale)]

\* typography of ListingPreview for a measured preview height
PreviewTypography(title, priceChars, location, description, areaWidth, previewHeight) ==
    ScaledTypography(
        CanvasTypography(title, priceChars, location, description,
                         PreviewInnerWidth(areaWidth),
                         RMax(<<CANVAS_HEIGHT - 2 * PADDING_Y, 1>>, <<80, 1>>),
                         PreviewDescriptionMultiplier),
        RDiv(RMax(previewHeight, One), CanvasHeight))

\* the metrics generateListingImage draws with
ExportTypography(title, priceChars, location, description, areaWidth) ==
    CanvasTypography(title, priceChars, location, description,
                     ExportInnerWidth(areaWidth),
                     <<CANVAS_HEIGHT - 2 * PADDING_Y, 1>>,
                     ExportDescriptionMultiplier)

(***************************************************************************)
(* State                                                                   *)
(***************************************************************************)
VARIABLES
    sPc,      \* solver run: "off", "start", "solved" or "permuted"
    sIn,      \* solver run: the aspect-ratio list handed to computeOptimalLayout
    sBox,     \* solver run: the container <<width, height>>
    sOut,     \* solver run: the LayoutSolution returned for sIn
    sPerm,    \* solver run: a reordering of the photos (position -> position in sIn)
    sPermOut, \* solver run: the LayoutSolution returned for the reordered list
    images,           \* Index: the selected files, in upload order
    frames,           \* Index: the PhotoFrames, in render order
    photoAreaWidth,   \* Index: width of the photo area in canvas pixels
    hasCustomLayout,  \* Index: TRUE once a frame was edited by hand
    isLayoutPending,  \* Index: TRUE while the newest decode batch is in flight
    batches,          \* Index: the runs of the layout-preparation effect
    layoutErrors,     \* Index: number of "layout failed" toasts shown
    objectUrls,       \* browser: the object URLs created and not yet revoked
    previousUrlsRef,  \* Index: previousUrlsRef.current
    dragState,        \* ListingPreview: dragState.current (NoGesture for null)
    resizeState,      \* ListingPreview: resizeState.current
    pinchState,       \* ListingPreview: pinchState.current
    isPinching,       \* ListingPreview: isPinching
    previewSize,      \* ListingPreview: measured <<width, height>> of the preview
    steps,            \* number of gesture starts and frame updates handled so far
    pointersDown,     \* browser: the pointers pressed on a frame and not yet released
    touches,          \* browser: the number of touch points on the preview
    inputs,           \* Index: version of the poster inputs handleGenerate closes over
    timer,            \* Index: inputs version of the pending debounce timer, 0 for none
    compositions,     \* Index: the generateListingImage calls started so far
    generatedImage,   \* Index: inputs version of the shown poster, 0 for null
    isGenerating,     \* Index: isGenerating
    generateErrors,   \* Index: number of "generation failed" toasts shown
    fPc,      \* text fit run: "off", "start" or "done"
    fText,    \* text fit run: rawText as a sequence of paragraphs of word lengths
    fOptions, \* text fit run: the TextFitOptions
    fResult,  \* text fit run: what fitTextBlock returned
    dPc,      \* render run: "off", "start" or "done"
    dIn,      \* render run: what the rendering step is given
    dOut      \* render run: what the rendering step produced

solverVars == <<sPc, sIn, sBox, sOut, sPerm, sPermOut>>
appVars == <<images, frames, photoAreaWidth, hasCustomLayout, isLayoutPending,
             batches, layoutErrors, objectUrls, previousUrlsRef>>
urlVars == <<objectUrls, previousUrlsRef>>
contactVars == <<pointersDown, touches>>
gestureVars == <<dragState, resizeState, pinchState, isPinching, previewSize, steps,
                 contactVars>>
genVars == <<inputs, timer, compositions, generatedImage, isGenerating,
             generateErrors>>
fitVars == <<fPc, fText, fOptions, fResult>>
drawVars == <<dPc, dIn, dOut>>
vars == <<solverVars, appVars, gestureVars, genVars, fitVars, drawVars>>

NoSolution == [rects |-> <<>>, usedWidth |-> Zero]
NoGesture == [id |-> <<>>]

\* no solver run in progress
SolverIdle ==
    /\ sPc = "off"
    /\ sIn = <<>>
    /\ sBox = <<One, One>>
    /\ sOut = NoSolution
    /\ sPerm = <<>>
    /\ sPermOut = NoSolution

\* the page before any photo is selected
AppIdle ==
    /\ images = <<>>
    /\ frames = <<>>
    /\ photoAreaWidth = DEFAULT_PHOTO_WIDTH
    /\ hasCustomLayout = FALSE
    /\ isLayoutPending = FALSE
    /\ batches = <<>>
    /\ layoutErrors = 0
    /\ objectUrls = {}
    /\ previousUrlsRef = <<>>

\* no gesture in progress
GestureIdle ==
    /\ dragState = NoGesture
    /\ resizeState = NoGesture
    /\ pinchState = NoGesture
    /\ isPinching = FALSE
    /\ previewSize = <<CanvasWidth, CanvasHeight>>
    /\ steps = 0
    /\ pointersDown = {}
    /\ touches = 0

\* nothing generated yet, no timer armed
GenIdle ==
    /\ inputs = 0
    /\ timer = 0
    /\ compositions = <<>>
    /\ generatedImage = 0
    /\ isGenerating = FALSE
    /\ generateErrors = 0

\* no text fit run in progress
FitIdle ==
    /\ fPc = "off"
    /\ fText = <<>>
    /\ fOptions = <<>>
    /\ fResult = <<>>

\* no render run in progress
DrawIdle ==
    /\ dPc = "off"
    /\ dIn = <<>>
    /\ dOut = <<>>

(***************************************************************************)
(* Solver runs: computeOptimalLayout on a list, then on a reordering of it  *)
(***************************************************************************)
\* the product rule of components/ImageUpload.tsx: at most 4 photos
MAX_PHOTOS == 4

RatioTable == <<Rat(1, 4), Rat(1, 1), Rat(2, 1), Rat(1, 20), Rat(3, 2)>>
NumRatios == 4
RatioVals == {RatioTable[i] : i \in 1..NumRatios}

QuadTable == << <<Rat(1, 4), Rat(1, 1), Rat(2, 1), Rat(2, 1)>>,
               <<Rat(1, 1), Rat(1, 1), Rat(1, 20), Rat(3, 2)>> >>
NumQuads == 1

Boxes == {<<Rat(100, 1), Rat(100, 1)>>, <<Rat(100, 1), Rat(60, 1)>>}
QuadBox == <<Rat(100, 1), Rat(60, 1)>>

\* the list whose position i holds the photo at position perm[i] of list
Permuted(list, perm) == [i \in 1..Len(list) |-> list[perm[i]]]

InitSolver ==
    /\ sPc = "start"
    /\ \/ /\ \E n \in 1..(MAX_PHOTOS - 1) : sIn \in [1..n -> RatioVals]
          /\ sBox \in Boxes
       \/ /\ \E q \in 1..NumQuads : sIn = QuadTable[q]
          /\ sBox = QuadBox
    /\ sOut = NoSolution
    /\ sPerm = <<>>
    /\ sPermOut = NoSolution
    /\ AppIdle
    /\ GestureIdle
    /\ GenIdle
    /\ FitIdle
    /\ DrawIdle

Solve ==
    /\ sPc = "start"
    /\ sPc' = "solved"
    /\ sOut' = computeOptimalLayout(sIn, sBox[1], sBox[2])
    /\ UNCHANGED <<sIn, sBox, sPerm, sPermOut, appVars, gestureVars, genVars, fitVars, drawVars>>

SolvePermuted ==
    /\ sPc = "solved"
    /\ sPc' = "permuted"
    /\ \E perm \in Permutations(1..Len(sIn)) :
          /\ sPerm' = perm
          /\ sPermOut' = computeOptimalLayout(Permuted(sIn, perm), sBox[1], sBox[2])
    /\ UNCHANGED <<sIn, sBox, sOut, appVars, gestureVars, genVars, fitVars, drawVars>>

NextSolver == Solve \/ SolvePermuted

SpecSolver == InitSolver /\ [][NextSolver]_vars

(***************************************************************************)
(* Manipulation: pointer and touch events on the frames of a loaded set    *)
(***************************************************************************)
MaxSteps == 4

\* the photo sets of the manipulation runs, as lists of files
ImageSets == {<<2, 1>>}
\* the photo sets of the resize runs: two squares side by side as well
ResizeImageSets == {<<1, 1>>, <<2, 1>>}
\* measured sizes of the preview element
PreviewSizes == {<<<<600, 1>>, <<375, 1>>>>}
Pointers == {1, 2}
\* clientX, clientY at pointer-down and at the pointer steps
DownPoint == <<<<200, 1>>, <<150, 1>>>>
MovePoints == {<<<<200, 1>>, <<270, 1>>>>, <<<<100, 1>>, <<150, 1>>>>}
\* distance between the two touches when a pinch starts and as it moves
StartDistances == {<<200, 1>>}
Distances == {<<100, 1>>, <<300, 1>>}

Active(state) == state # NoGesture

\* photoAreaWidth as Index passes it to ListingPreview
PreviewAreaWidth == RMin(RMax(photoAreaWidth, One), MAX_PHOTO_WIDTH)
Metrics == getContainerMetrics(previewSize, PreviewAreaWidth)

PointerState(frame, pointerId) ==
    [id |-> frame.id, pointerId |-> pointerId,
     startX |-> DownPoint[1], startY |-> DownPoint[2],
     initialRect |-> frame.layout]

\* the state of a page whose photo set has just been laid out
LaidOut(sets) ==
    /\ images \in sets
    /\ frames = WithSrc(PreparedLayout(images)[1], BatchUrls(1, images))
    /\ photoAreaWidth = PreparedLayout(images)[2]
    /\ hasCustomLayout = FALSE
    /\ isLayoutPending = FALSE
    /\ batches = <<[files |-> images, cancelled |-> FALSE, status |-> "published",
                    previousUrls |-> <<>>]>>
    /\ layoutErrors = 0
    /\ objectUrls = Range(BatchUrls(1, images))
    /\ previousUrlsRef = BatchUrls(1, images)
    /\ dragState = NoGesture
    /\ resizeState = NoGesture
    /\ pinchState = NoGesture
    /\ isPinching = FALSE
    /\ previewSize \in PreviewSizes
    /\ steps = 0
    /\ pointersDown = {}
    /\ touches = 0
    /\ SolverIdle
    /\ GenIdle
    /\ FitIdle
    /\ DrawIdle

InitGesture == LaidOut(ImageSets)

\* handlePointerDown on a frame, with onFocusFrame
PointerDown(i, pointerId) ==
    /\ pointerId \notin pointersDown
    /\ pointersDown' = pointersDown \cup {pointerId}
    /\ ~Active(resizeState)
    /\ ~isPinching
    /\ steps < MaxSteps
    /\ steps' = steps + 1
    /\ dragState' = PointerState(frames[i], pointerId)
    /\ frames' = FocusFrame(frames, frames[i].id)
    /\ UNCHANGED <<images, photoAreaWidth, hasCustomLayout, isLayoutPending, batches,
                   layoutErrors, urlVars, resizeState, pinchState, isPinching, previewSize,
                   touches, solverVars, genVars, fitVars, drawVars>>

\* handleResizePointerDown on a frame's handle
ResizePointerDown(i, pointerId) ==
    /\ pointerId \notin pointersDown
    /\ pointersDown' = pointersDown \cup {pointerId}
    /\ ~isPinching
    /\ steps < MaxSteps
    /\ steps' = steps + 1
    /\ resizeState' = PointerState(frames[i], pointerId)
    /\ UNCHANGED <<appVars, dragState, pinchState, isPinching, previewSize, touches,
                   solverVars, genVars, fitVars, drawVars>>

\* handleFrameUpdate -> handleFrameChange
UpdateFrame(id, layout) ==
    /\ steps < MaxSteps
    /\ steps' = steps + 1
    /\ frames' = ChangeFrame(frames, id, RoundedLayout(layout))
    /\ hasCustomLayout' = TRUE
    /\ UNCHANGED <<images, photoAreaWidth, isLayoutPending, batches, layoutErrors,
                   urlVars, dragState, resizeState, pinchState, isPinching, previewSize,
                   contactVars, solverVars, genVars, fitVars, drawVars>>

\* handlePointerMove, drag branch
DragMove(pointerId, point) ==
    /\ ~isPinching
    /\ Active(dragState)
    /\ dragState.pointerId = pointerId
    /\ HasFrame(frames, dragState.id)
    /\ UpdateFrame(dragState.id,
                   DragLayout(frames, dragState, FrameById(frames, dragState.id),
                              Metrics, point))

\* handlePointerMove, resize branch
ResizeMove(pointerId, point) ==
    /\ ~isPinching
    /\ ~(Active(dragState) /\ dragState.pointerId = pointerId)
    /\ Active(resizeState)
    /\ resizeState.pointerId = pointerId
    /\ HasFrame(frames, resizeState.id)
    /\ UpdateFrame(resizeState.id,
                   ResizeLayout(resizeState, FrameById(frames, resizeState.id),
                                Metrics, point))

\* a pointer-up that clears the drag state only
PointerUpDragOnly(pointerId) ==
    /\ pointerId \in pointersDown
    /\ pointersDown' = pointersDown \ {pointerId}
    /\ dragState' = IF Active(dragState) /\ dragState.pointerId = pointerId
                    THEN NoGesture ELSE dragState
    /\ UNCHANGED <<appVars, resizeState, pinchState, isPinching, previewSize, steps,
                   touches, solverVars, genVars, fitVars, drawVars>>

\* handlePointerUp / pointer cancel: clearPointerStates
PointerUp(pointerId) ==
    /\ pointerId \in pointersDown
    /\ pointersDown' = pointersDown \ {pointerId}
    /\ dragState' = IF Active(dragState) /\ dragState.pointerId = pointerId
                    THEN NoGesture ELSE dragState
    /\ resizeState' = IF Active(resizeState) /\ resizeState.pointerId = pointerId
                      THEN NoGesture ELSE resizeState
    /\ UNCHANGED <<appVars, pinchState, isPinching, previewSize, steps, touches,
                   solverVars, genVars, fitVars, drawVars>>

\* handleTouchStart with one touch: focus only
TouchStartOne(i) ==
    /\ touches = 0
    /\ touches' = 1
    /\ frames' = FocusFrame(frames, frames[i].id)
    /\ UNCHANGED <<images, photoAreaWidth, hasCustomLayout, isLayoutPending, batches,
                   layoutErrors, urlVars, dragState, resizeState, pinchState, isPinching,
                   previewSize, steps, pointersDown, solverVars, genVars, fitVars,
                   drawVars>>

\* handleTouchStart with two touches
TouchStartTwo(i, distance) ==
    /\ touches < 2
    /\ touches' = 2
    /\ steps < MaxSteps
    /\ steps' = steps + 1
    /\ pinchState' = PinchStateFor(frames[i], Metrics, distance)
    /\ isPinching' = TRUE
    /\ UNCHANGED <<appVars, dragState, resizeState, previewSize, pointersDown,
                   solverVars, genVars, fitVars, drawVars>>

\* handleTouchMove with two touches
TouchMove(distance) ==
    /\ Active(pinchState)
    /\ touches = 2
    /\ HasFrame(frames, pinchState.id)
    /\ UpdateFrame(pinchState.id,
                   PinchLayout(frames, pinchState, FrameById(frames, pinchState.id),
                               Metrics, distance))

\* handleTouchEnd / touch cancel
TouchEnd ==
    /\ touches > 0
    /\ touches' = touches - 1
    /\ pinchState' = NoGesture
    /\ isPinching' = IF Active(pinchState) THEN FALSE ELSE isPinching
    /\ UNCHANGED <<appVars, dragState, resizeState, previewSize, steps, pointersDown,
                   solverVars, genVars, fitVars, drawVars>>

\* handleResetLayout
ResetLayout ==
    /\ Len(frames) > 0
    /\ frames' = ResetLayoutOf(frames)[1]
    /\ photoAreaWidth' = ResetLayoutOf(frames)[2]
    /\ hasCustomLayout' = FALSE
    /\ UNCHANGED <<images, isLayoutPending, batches, layoutErrors, urlVars,
                   gestureVars, solverVars, genVars, fitVars, drawVars>>

NextGesture ==
    \/ \E i \in 1..Len(frames), pointerId \in Pointers : PointerDown(i, pointerId)
    \/ \E i \in 1..Len(frames), pointerId \in Pointers : ResizePointerDown(i, pointerId)
    \/ \E pointerId \in Pointers, point \in MovePoints : DragMove(pointerId, point)
    \/ \E pointerId \in Pointers, point \in MovePoints : ResizeMove(pointerId, point)
    \/ \E pointerId \in Pointers : PointerUp(pointerId)
    \/ \E i \in 1..Len(frames) : TouchStartOne(i)
    \/ \E i \in 1..Len(frames), distance \in StartDistances : TouchStartTwo(i, distance)
    \/ \E distance \in Distances : TouchMove(distance)
    \/ TouchEnd
    \/ ResetLayout

SpecGesture == InitGesture /\ [][NextGesture]_vars

(***************************************************************************)
(* Claims about the solver                                                 *)
(***************************************************************************)
TotalArea(solution) == SumArea(solution.rects, 1)

\* the rect of photo index i (0-based) in a solution
RectOf(solution, i) ==
    solution.rects[CHOOSE k \in 1..Len(solution.rects) : solution.rects[k].index = i]

CountAndArea(list, solution, box) ==
    /\ Len(solution.rects) = Len(list)
    /\ \A i \in 0..(Len(list) - 1) :
          Cardinality({k \in 1..Len(solution.rects) : solution.rects[k].index = i}) = 1
    /\ RLe(TotalArea(solution), RMul(box[1], box[2]))
    /\ Len(list) = 1 =>
          /\ solution.rects[1].height = box[2]
          /\ RLe(RMul(Rat(1, 4), box[1]), solution.rects[1].width)
          /\ RLe(solution.rects[1].width, box[1])

\* C5: for every list of 1 to 4 aspect ratios and every container,
\* computeOptimalLayout returns exactly one rect per input index, the rects'
\* total area is at most W*H, and for N = 1 the rect has height H and a width
\* in [0.25*W, W].
C5_CountAndArea ==
    /\ sPc = "solved" => CountAndArea(sIn, sOut, sBox)
    /\ sPc = "permuted" => CountAndArea(Permuted(sIn, sPerm), sPermOut, sBox)

\* a four-photo solve that leaves part of the container unused, and before it
\* (same behaviour) nothing else: the N = 4 case of C5 has happened
C5_Witness ==
    /\ sPc = "permuted"
    /\ Len(sIn) = MAX_PHOTOS
    /\ RLt(TotalArea(sPermOut), RMul(sBox[1], sBox[2]))
    /\ sPerm # [i \in 1..Len(sIn) |-> i]

\* the post-processing of computeOptimalLayout applied to one candidate layout
Published(layout, containerWidth) ==
    LET sorted == SortByIndex(layout)
        minX == MinX(sorted, 1)
    IN  [rects |-> [i \in 1..Len(sorted) |->
                       [sorted[i] EXCEPT !.x = RSub(sorted[i].x, minX)]],
         usedWidth |-> RMin(RMax(RSub(MaxRight(sorted, 1), minX), One), containerWidth)]

RECURSIVE AllVertical(_, _, _)
\* the split tree that places photos i..n-1 side by side
AllVertical(list, i, orientation) ==
    IF i = Len(list) - 1 THEN buildLeaf(i, list[i + 1])
    ELSE buildSplit(orientation, buildLeaf(i, list[i + 1]), AllVertical(list, i + 1, orientation))

BestOfCandidates(list, solution, box) ==
    LET cands == Candidates(list, box[1], box[2])
        areas == [c \in 1..Len(cands) |-> SumArea(cands[c], 1)]
        first == CHOOSE c \in 1..Len(cands) :
                    /\ \A d \in 1..Len(cands) : RLe(areas[d], areas[c])
                    /\ \A d \in 1..(c - 1) : areas[d] # areas[c]
        pure(o) == SumArea(layoutTree(AllVertical(list, 0, o), Container(box[1], box[2])), 1)
    IN  /\ \A c \in 1..Len(cands) : RLe(areas[c], TotalArea(solution))
        /\ RLe(pure("vertical"), TotalArea(solution))
        /\ RLe(pure("horizontal"), TotalArea(solution))
        /\ solution = Published(cands[first], box[1])

\* C6: for N >= 2 the returned layout's total area is at least that of every
\* candidate (every permutation, split tree and orientation tagging), hence
\* of the all-vertical and the all-horizontal split, and among the candidates
\* of maximal area the first in enumeration order is the one returned.
C6_MaxAreaFirstWins ==
    /\ (sPc = "solved" /\ Len(sIn) >= 2) =>
          BestOfCandidates(sIn, sOut, sBox)
    /\ (sPc = "permuted" /\ Len(sIn) >= 2) =>
          BestOfCandidates(Permuted(sIn, sPerm), sPermOut, sBox)

\* a solve in which at least two different candidates reach the maximum area
\* and the mixed-orientation winner beats both pure splits
C6_Witness ==
    /\ sPc = "solved"
    /\ Len(sIn) = 3
    /\ LET cands == Candidates(sIn, sBox[1], sBox[2])
           pure(o) == SumArea(layoutTree(AllVertical(sIn, 0, o), Container(sBox[1], sBox[2])), 1)
       IN  /\ \E c, d \in 1..Len(cands) :
                /\ c # d
                /\ SumArea(cands[c], 1) = TotalArea(sOut)
                /\ SumArea(cands[d], 1) = TotalArea(sOut)
                /\ Published(cands[c], sBox[1]) # Published(cands[d], sBox[1])
           /\ RLt(pure("vertical"), TotalArea(sOut))
           /\ RLt(pure("horizontal"), TotalArea(sOut))

\* the bag of (width, height) pairs of a solution, as a function shape -> count
ShapeBag(solution) ==
    LET shapes == {<<solution.rects[k].width, solution.rects[k].height>> :
                      k \in 1..Len(solution.rects)}
    IN  [sh \in shapes |->
            Cardinality({k \in 1..Len(solution.rects) :
                            <<solution.rects[k].width, solution.rects[k].height>> = sh})]

\* C7 as stated: solving a permuted list yields the same multiset of rect
\* shapes as solving the original list.
C7_SameShapes ==
    (sPc = "permuted" /\ Len(sIn) >= 2) => ShapeBag(sPermOut) = ShapeBag(sOut)

\* C7 (amended): for every list of 2 to 4 aspect ratios and every permutation
\* of it, solving the permuted list yields rects of the same total area as
\* solving the original list.
C7_SameTotalArea ==
    (sPc = "permuted" /\ Len(sIn) >= 2) => TotalArea(sPermOut) = TotalArea(sOut)

\* a reordered solve whose rect shapes differ from the original solve's
C7_Witness ==
    /\ sPc = "permuted"
    /\ Len(sIn) >= 2
    /\ Permuted(sIn, sPerm) # sIn
    /\ ShapeBag(sPermOut) # ShapeBag(sOut)

\* the post-processed result of a solve of two or more photos: rects in index
\* order, left edge at 0, every rect within usedWidth, usedWidth the lesser of
\* the bounding width and the container width
PostProcessed(list, solution, box) ==
    Len(list) >= 2 =>
        /\ \A i \in 1..Len(solution.rects) : solution.rects[i].index = i - 1
        /\ MinX(solution.rects, 1) = Zero
        /\ \A i \in 1..Len(solution.rects) :
              RLe(RAdd(solution.rects[i].x, solution.rects[i].width), solution.usedWidth)
        /\ solution.usedWidth
               = RMin(RSub(MaxRight(solution.rects, 1), MinX(solution.rects, 1)), box[1])

Disjoint(a, b) ==
    \/ RLe(RAdd(a.x, a.width), b.x)
    \/ RLe(RAdd(b.x, b.width), a.x)
    \/ RLe(RAdd(a.y, a.height), b.y)
    \/ RLe(RAdd(b.y, b.height), a.y)

\* a rect lies inside the container [0, W] x [0, H]
InsideContainer(rect, box) ==
    /\ RLe(Zero, rect.x)
    /\ RLe(Zero, rect.y)
    /\ RLe(RAdd(rect.x, rect.width), box[1])
    /\ RLe(RAdd(rect.y, rect.height), box[2])

AllInside(layout, box) ==
    \A k \in 1..Len(layout) : InsideContainer(layout[k], box)

\* the geometry of a solve of two or more photos
TreeGeometry(list, solution, box) ==
    Len(list) >= 2 =>
        /\ \A i \in 1..Len(solution.rects) :
              RDiv(solution.rects[i].width, solution.rects[i].height)
                  = RMax(list[solution.rects[i].index + 1], MIN_LEAF_RATIO)
        /\ \A i, j \in 1..Len(solution.rects) :
              i < j => Disjoint(solution.rects[i], solution.rects[j])
        /\ AllInside(BestLayout(list, box[1], box[2]), box)

\* C27: for N >= 2 every rect computeOptimalLayout returns has width / height
\* equal to its photo's aspect ratio (floored at 0.1), the rects are pairwise
\* non-overlapping, and before the final left shift each rect lies inside the
\* container [0, W] x [0, H].
C27_AspectsDisjointInside ==
    /\ sPc = "solved" => TreeGeometry(sIn, sOut, sBox)
    /\ sPc = "permuted" => TreeGeometry(Permuted(sIn, sPerm), sPermOut, sBox)

\* three photos were solved, one of them narrower than the floor of 0.1 and
\* laid out at 0.1
C27_Witness ==
    /\ sPc = "solved"
    /\ Len(sIn) = 3
    /\ sIn[2] = Rat(1, 20)
    /\ RDiv(sOut.rects[2].width, sOut.rects[2].height) = MIN_LEAF_RATIO

(***************************************************************************)
(* Claims about the manipulation controller                                *)
(***************************************************************************)
\* the tolerance of rounding to 6 decimals
RoundingEps == <<1, Million>>

InBounds(layout) ==
    /\ RLe(Zero, layout.x)
    /\ RLe(Zero, layout.y)
    /\ RLe(RAdd(layout.x, layout.width), RAdd(One, RoundingEps))
    /\ RLe(RAdd(layout.y, layout.height), RAdd(One, RoundingEps))

\* C1: after any sequence of drag, resize and pinch moves every frame's layout
\* has 0 <= x, 0 <= y, x + width <= 1 + eps and y + height <= 1 + eps.
C1_LayoutsInBounds ==
    \A i \in 1..Len(frames) : InBounds(frames[i].layout)

ActiveGestures ==
    (IF Active(dragState) THEN {"drag"} ELSE {})
        \cup (IF Active(resizeState) THEN {"resize"} ELSE {})
        \cup (IF Active(pinchState) THEN {"pinch"} ELSE {})

\* C4: after any sequence of pointer-down, handle pointer-down, two-finger
\* touch-start, pointer-up and touch-end events at most one of the drag,
\* resize and pinch states is active.
C4_AtMostOneGesture == Cardinality(ActiveGestures) <= 1

\* the layout the frame with this id had right after loading
LoadedLayoutOf(id) == FrameById(PreparedLayout(images)[1], id).layout

\* C8: Reset layout gives every frame the rect a fresh solve of the loaded
\* photos assigns to it and restores photoAreaWidth, whatever edits and
\* focus changes preceded it; so whenever hasCustomLayout is clear the
\* frames are laid out as they were right after loading.
C8_ResetReproducesLoad ==
    (Len(frames) > 0 /\ ~hasCustomLayout) =>
        /\ \A i \in 1..Len(frames) : frames[i].layout = LoadedLayoutOf(frames[i].id)
        /\ photoAreaWidth = PreparedLayout(images)[2]

\* the edges of the other frames on an axis
OtherEdges(list, axis, frameId) ==
    UNION {{AxisPos(list[i].layout, axis),
            RAdd(AxisPos(list[i].layout, axis), AxisSize(list[i].layout, axis))} :
           i \in {j \in 1..Len(list) : list[j].id # frameId}}

\* a written coordinate matches every edge the candidate coordinate was near,
\* with its near side or with its far side
SnappedExactly(edges, candidate, size, written, writtenSize) ==
    \A edge \in edges :
        /\ InThreshold(candidate, edge) => written = edge
        /\ InThreshold(candidate, RSub(edge, size)) => RAdd(written, writtenSize) = edge

DragSnapsExactly(drag, frame, point, written) ==
    /\ SnappedExactly(OtherEdges(frames, "x", frame.id),
                      RAdd(drag.initialRect.x, DeltaX(point, drag, Metrics)),
                      frame.layout.width, written.x, written.width)
    /\ SnappedExactly(OtherEdges(frames, "y", frame.id),
                      RAdd(drag.initialRect.y, DeltaY(point, drag, Metrics)),
                      frame.layout.height, written.y, written.height)

\* C9: a drag move whose candidate x (or y) is within the snap threshold of
\* another frame's edge writes a layout whose corresponding edge equals that
\* edge exactly.
C9_SnapExact ==
    [][\A pointerId \in Pointers, point \in MovePoints :
          DragMove(pointerId, point) =>
              DragSnapsExactly(dragState, FrameById(frames, dragState.id), point,
                               FrameById(frames', dragState.id).layout)]_vars

\* next is list with the frame at position k moved to the end, every frame
\* record as it was
MovedToEnd(list, k, next) ==
    /\ Len(next) = Len(list)
    /\ next[Len(next)] = list[k]
    /\ \A i \in 1..Len(list) :
          /\ i < k => next[i] = list[i]
          /\ i > k => next[i - 1] = list[i]

FocusEffect(list, id, next) ==
    IF \E k \in 1..Len(list) : list[k].id = id
    THEN \E k \in 1..Len(list) : list[k].id = id /\ MovedToEnd(list, k, next)
    ELSE next = list

\* an id no frame has
UnknownId == <<0, 0>>

NoGestureActive == ActiveGestures = {}

\* the layout of every frame, by frame id
FrameLayouts(list) == {<<list[i].id, list[i].layout>> : i \in 1..Len(list)}

\* a drag or resize is active only while its pointer is down, a pinch only
\* while two touch points are on the preview
GestureHeld ==
    /\ Active(dragState) => dragState.pointerId \in pointersDown
    /\ Active(resizeState) => resizeState.pointerId \in pointersDown
    /\ Active(pinchState) \/ isPinching => touches = 2

\* C26: every gesture ends with its end event: after the pointer-up or
\* pointer-cancel of a gesture's pointer the drag or resize is not active,
\* after a touch-end that leaves fewer than two touch points the pinch is not
\* active, so with no pointer and no touch down no gesture state is active;
\* and while no gesture state is active no event other than a layout reset
\* changes a frame's layout.
C26_GesturesEnd ==
    /\ [](GestureHeld /\ (pointersDown = {} /\ touches = 0 => NoGestureActive))
    /\ [][NoGestureActive /\ FrameLayouts(frames') # FrameLayouts(frames)
              => ResetLayout]_vars

\* a gesture has moved a frame and has ended: every pointer and touch is up
\* and no gesture state is left
C26_Witness ==
    /\ hasCustomLayout
    /\ pointersDown = {}
    /\ touches = 0
    /\ NoGestureActive
    /\ steps >= 2

\* C17: a drag start arriving while a resize or pinch is active, and a
\* resize start arriving while a drag or pinch is active, is ignored: it
\* starts no gesture and leaves the recorded gesture states unchanged. So a
\* pointer-down takes effect only when no other kind of gesture is active.
C17_StartIgnoredWhileActive ==
    [][\A i \in 1..Len(frames), pointerId \in Pointers :
          /\ PointerDown(i, pointerId) =>
                ~(Active(resizeState) \/ Active(pinchState))
          /\ ResizePointerDown(i, pointerId) =>
                ~(Active(dragState) \/ Active(pinchState))]_vars

\* Resizing: the pointer gestures with handle moves that shrink and grow
\* clientX, clientY of the moves of a resize pointer
ResizePoints == {<<<<100, 1>>, <<150, 1>>>>, <<<<400, 1>>, <<150, 1>>>>}

NextResize ==
    \/ \E i \in 1..Len(frames), pointerId \in Pointers : PointerDown(i, pointerId)
    \/ \E i \in 1..Len(frames), pointerId \in Pointers : ResizePointerDown(i, pointerId)
    \/ \E pointerId \in Pointers, point \in MovePoints : DragMove(pointerId, point)
    \/ \E pointerId \in Pointers, point \in ResizePoints : ResizeMove(pointerId, point)
    \/ \E pointerId \in Pointers : PointerUp(pointerId)

InitResize == LaidOut(ResizeImageSets)

SpecResize == InitResize /\ [][NextResize]_vars

\* the frame a resize move writes, before and after the move
ResizedBefore == FrameById(frames, resizeState.id)
ResizedAfter == FrameById(frames', resizeState.id)

\* the width the remaining height (1 - y) allows at the frame's aspect ratio
WidthFromRemainingHeight(frame) ==
    RMul(RSub(One, frame.layout.y), RDiv(frame.aspectRatio, MetricsAspect(Metrics)))

\* a resize move keeps the frame's x and y
ResizeKeepsPosition ==
    /\ ResizedAfter.layout.x = ResizedBefore.layout.x
    /\ ResizedAfter.layout.y = ResizedBefore.layout.y

\* the written width is at least the minimum width
ResizeWidthAtLeastMin == RLe(MinWidthNormalized(Metrics), ResizedAfter.layout.width)

\* the written width is at most the space to the right and the width the
\* remaining height implies
ResizeWidthAtMostRoom ==
    RLe(ResizedAfter.layout.width,
        RMin(RSub(One, ResizedBefore.layout.x), WidthFromRemainingHeight(ResizedBefore)))

\* the written height is width * containerAspect / aspectRatio
ResizeHeightFollowsWidth ==
    ResizedAfter.layout.height =
        RMul(ResizedAfter.layout.width,
             RDiv(MetricsAspect(Metrics), ResizedBefore.aspectRatio))

\* C20: every resize move leaves the frame's x and y unchanged and writes a
\* width that is at least the minimum width (80 px in normalised units, and
\* at least 0.04) and at most the lesser of 1 - x and the width the remaining
\* height 1 - y implies at the frame's aspect ratio, with height equal to
\* width * containerAspect / aspectRatio.
C20_ResizeWithinRoom ==
    [][\A pointerId \in Pointers, point \in ResizePoints :
          ResizeMove(pointerId, point) =>
              /\ ResizeKeepsPosition
              /\ ResizeWidthAtLeastMin
              /\ ResizeWidthAtMostRoom
              /\ ResizeHeightFollowsWidth]_vars

(***************************************************************************)
(* Photo selection: the layout-preparation effect of pages/Index.tsx       *)
(***************************************************************************)
MaxBatches == 3

\* the photo sets a user selects, as lists of files
SelectableSets == {<<1>>, <<2, 1>>, <<3, 3>>}

NewBatch(files, previousUrls) ==
    [files |-> files, cancelled |-> FALSE, status |-> "pending",
     previousUrls |-> previousUrls]

\* the cleanup of the previous effect run: cancelled = true
CancelPrevious(runs) ==
    IF Len(runs) = 0 THEN runs
    ELSE [runs EXCEPT ![Len(runs)].cancelled = TRUE]

InitDecode ==
    /\ AppIdle
    /\ GestureIdle
    /\ SolverIdle
    /\ GenIdle
    /\ FitIdle
    /\ DrawIdle

\* setImages with a non-empty list: cleanup of the previous run, then the
\* effect body up to the await; every readImageMetadata call has created
\* its object URL by then
SelectImages(files) ==
    /\ Len(batches) < MaxBatches
    /\ images' = files
    /\ isLayoutPending' = TRUE
    /\ batches' = Append(CancelPrevious(batches), NewBatch(files, previousUrlsRef))
    /\ objectUrls' = objectUrls \cup Range(BatchUrls(Len(batches) + 1, files))
    /\ UNCHANGED <<frames, photoAreaWidth, hasCustomLayout, layoutErrors,
                   previousUrlsRef, gestureVars, solverVars, genVars, fitVars, drawVars>>

\* setImages([]): cleanup of the previous run, then the images.length === 0 branch
ClearImages ==
    /\ images # <<>>
    /\ images' = <<>>
    /\ objectUrls' = objectUrls \ Range(previousUrlsRef)
    /\ previousUrlsRef' = <<>>
    /\ frames' = <<>>
    /\ photoAreaWidth' = DEFAULT_PHOTO_WIDTH
    /\ isLayoutPending' = FALSE
    /\ hasCustomLayout' = FALSE
    /\ batches' = CancelPrevious(batches)
    /\ UNCHANGED <<layoutErrors, gestureVars, solverVars, genVars, fitVars, drawVars>>

\* resetFormState, followed by the effect run that setImages([]) causes when
\* photos were selected
ResetForm ==
    /\ objectUrls' = objectUrls \ Range(previousUrlsRef)
    /\ previousUrlsRef' = <<>>
    /\ images' = <<>>
    /\ frames' = <<>>
    /\ photoAreaWidth' = DEFAULT_PHOTO_WIDTH
    /\ isLayoutPending' = FALSE
    /\ hasCustomLayout' = FALSE
    /\ batches' = IF images # <<>> THEN CancelPrevious(batches) ELSE batches
    /\ UNCHANGED <<layoutErrors, gestureVars, solverVars, genVars, fitVars, drawVars>>

\* Promise.all resolves for a run that is still current: lines 238-278, 284-286
BatchPublished(b) ==
    /\ batches[b].status = "pending"
    /\ ~batches[b].cancelled
    /\ objectUrls' = objectUrls \ Range(batches[b].previousUrls)
    /\ previousUrlsRef' = BatchUrls(b, batches[b].files)
    /\ frames' = WithSrc(PreparedLayout(batches[b].files)[1],
                         BatchUrls(b, batches[b].files))
    /\ photoAreaWidth' = PreparedLayout(batches[b].files)[2]
    /\ hasCustomLayout' = FALSE
    /\ isLayoutPending' = FALSE
    /\ batches' = [batches EXCEPT ![b].status = "published"]
    /\ UNCHANGED <<images, layoutErrors, gestureVars, solverVars, genVars, fitVars, drawVars>>

\* Promise.all resolves for a cancelled run: lines 233-236
BatchDiscarded(b) ==
    /\ batches[b].status = "pending"
    /\ batches[b].cancelled
    /\ objectUrls' = objectUrls \ Range(BatchUrls(b, batches[b].files))
    /\ batches' = [batches EXCEPT ![b].status = "discarded"]
    /\ UNCHANGED <<images, frames, photoAreaWidth, hasCustomLayout, isLayoutPending,
                   layoutErrors, previousUrlsRef, gestureVars, solverVars, genVars,
                   fitVars, drawVars>>

\* a rejection that shows no toast
BatchFailedSilently(b) ==
    /\ batches[b].status = "pending"
    /\ \E bad \in SUBSET (1..Len(batches[b].files)) \ {{}} :
          objectUrls' = objectUrls \ {BatchUrls(b, batches[b].files)[i] : i \in bad}
    /\ frames' = <<>>
    /\ isLayoutPending' = IF batches[b].cancelled THEN isLayoutPending ELSE FALSE
    /\ batches' = [batches EXCEPT ![b].status = "failed"]
    /\ UNCHANGED <<images, photoAreaWidth, hasCustomLayout, previousUrlsRef,
                   layoutErrors, gestureVars, solverVars, genVars, fitVars, drawVars>>

\* a finally block that clears isLayoutPending for a cancelled run too
BatchFailedClearsPending(b) ==
    /\ batches[b].status = "pending"
    /\ \E bad \in SUBSET (1..Len(batches[b].files)) \ {{}} :
          objectUrls' = objectUrls \ {BatchUrls(b, batches[b].files)[i] : i \in bad}
    /\ layoutErrors' = layoutErrors + 1
    /\ frames' = <<>>
    /\ isLayoutPending' = FALSE
    /\ batches' = [batches EXCEPT ![b].status = "failed"]
    /\ UNCHANGED <<images, photoAreaWidth, hasCustomLayout, previousUrlsRef,
                   gestureVars, solverVars, genVars, fitVars, drawVars>>

\* the images of a run that fail to load: any one or more of its files
FailingImages(files) == SUBSET (1..Len(files)) \ {{}}

\* Promise.all rejects: img.onerror of every failing image revokes its own
\* URL, then the catch block and the finally block
BatchFailed(b) ==
    /\ batches[b].status = "pending"
    /\ \E bad \in FailingImages(batches[b].files) :
          objectUrls' = objectUrls \ {BatchUrls(b, batches[b].files)[i] : i \in bad}
    /\ layoutErrors' = layoutErrors + 1
    /\ frames' = <<>>
    /\ isLayoutPending' = IF batches[b].cancelled THEN isLayoutPending ELSE FALSE
    /\ batches' = [batches EXCEPT ![b].status = "failed"]
    /\ UNCHANGED <<images, photoAreaWidth, hasCustomLayout, previousUrlsRef,
                   gestureVars, solverVars, genVars, fitVars, drawVars>>

NextDecode ==
    \/ \E files \in SelectableSets : SelectImages(files)
    \/ ClearImages
    \/ ResetForm
    \/ \E b \in 1..Len(batches) : BatchPublished(b)
    \/ \E b \in 1..Len(batches) : BatchDiscarded(b)
    \/ \E b \in 1..Len(batches) : BatchFailed(b)

SpecDecode == InitDecode /\ [][NextDecode]_vars

\* C2: the completion of a superseded decode batch, whether it succeeds or
\* fails, never changes the published frames, photoAreaWidth, hasCustomLayout
\* or isLayoutPending.
C2_SupersededNeverPublishes ==
    [][\A b \in 1..Len(batches) :
          (batches[b].cancelled /\ (BatchDiscarded(b) \/ BatchFailed(b))) =>
              UNCHANGED <<frames, photoAreaWidth, hasCustomLayout, isLayoutPending>>]_vars

\* no run of the layout-preparation effect is waiting for its images
NoBatchInFlight == \A b \in 1..Len(batches) : batches[b].status # "pending"

\* C12: whenever no decode batch is in flight, the object URLs created and
\* not yet revoked are exactly the src values of the published frames, after
\* any photo selections, removals, superseded batches, decode failures and
\* form resets.
C12_UrlLifetimeMatchesFrames ==
    NoBatchInFlight => objectUrls = {frames[i].src : i \in 1..Len(frames)}

\* every image load ends with onload or onerror, so a run of the effect that
\* is waiting for its images sees Promise.all settle: a step of BatchPublished,
\* BatchDiscarded or BatchFailed
PromiseSettles ==
    \E b \in 1..Len(batches) : \E outcome \in {"published", "discarded", "failed"} :
        /\ batches[b].status = "pending"
        /\ batches' = [batches EXCEPT ![b].status = outcome]

SpecDecodeFair == SpecDecode /\ WF_batches(PromiseSettles)

FailedBatches == {b \in 1..Len(batches) : batches[b].status = "failed"}

\* no published frame shows an image of a batch that failed
NoFrameOfFailedBatch ==
    \A b \in FailedBatches : \A i \in 1..Len(frames) :
        frames[i].src \notin Range(BatchUrls(b, batches[b].files))

\* C13: when a photo of a decode batch fails to load, no frame of that
\* batch is published, the layout-error notification is raised exactly once
\* for that batch, and isLayoutPending returns to false: at once when the
\* batch is the current one, and otherwise when the newer batch settles.
C13_FailedBatchAbandoned ==
    /\ [](NoFrameOfFailedBatch /\ layoutErrors = Cardinality(FailedBatches))
    /\ [][\A b \in 1..Len(batches) :
             BatchFailed(b) =>
                 /\ layoutErrors' = layoutErrors + 1
                 /\ ~batches[b].cancelled => ~isLayoutPending']_vars
    /\ (FailedBatches # {}) ~> ~isLayoutPending

\* a batch of two photos failed although one of them decoded, after an
\* earlier batch had published its frames
C13_Witness ==
    \E b \in FailedBatches :
        /\ Len(batches[b].files) = 2
        /\ BatchUrls(b, batches[b].files)[2] \in objectUrls
        /\ \E a \in 1..(b - 1) : batches[a].status = "published"
        /\ frames = <<>>
        /\ ~isLayoutPending

(***************************************************************************)
(* Poster generation: handleGenerate and its debounce effect               *)
(***************************************************************************)
MaxInputs == 4

\* the page after mount: the debounce effect has armed its first timer
InitGen ==
    /\ AppIdle
    /\ inputs = 1
    /\ timer = 1
    /\ compositions = <<>>
    /\ generatedImage = 0
    /\ isGenerating = FALSE
    /\ generateErrors = 0
    /\ GestureIdle
    /\ SolverIdle
    /\ FitIdle
    /\ DrawIdle

\* a dependency of handleGenerate changes: the effect cleanup clears the
\* pending timer and the effect arms a new one for the new handleGenerate
InputChange ==
    /\ inputs < MaxInputs
    /\ inputs' = inputs + 1
    /\ timer' = inputs + 1
    /\ UNCHANGED <<compositions, generatedImage, isGenerating, generateErrors,
                   appVars, gestureVars, solverVars, fitVars, drawVars>>

\* the timer fires after 500 ms: handleGenerate up to its await
TimerFires ==
    /\ timer # 0
    /\ timer' = 0
    /\ IF isLayoutPending
       THEN UNCHANGED <<compositions, isGenerating>>
       ELSE /\ isGenerating' = TRUE
            /\ compositions' = Append(compositions,
                                      [inputs |-> timer, status |-> "running"])
    /\ UNCHANGED <<inputs, generatedImage, generateErrors,
                   appVars, gestureVars, solverVars, fitVars, drawVars>>

\* generateListingImage resolves: setGeneratedImage, then the finally block
CompositionDone(c) ==
    /\ compositions[c].status = "running"
    /\ generatedImage' = compositions[c].inputs
    /\ isGenerating' = FALSE
    /\ compositions' = [compositions EXCEPT ![c].status = "done"]
    /\ UNCHANGED <<inputs, timer, generateErrors,
                   appVars, gestureVars, solverVars, fitVars, drawVars>>

\* a catch block that also drops the shown poster
CompositionFailedClearsImage(c) ==
    /\ compositions[c].status = "running"
    /\ generateErrors' = generateErrors + 1
    /\ isGenerating' = FALSE
    /\ generatedImage' = 0
    /\ compositions' = [compositions EXCEPT ![c].status = "failed"]
    /\ UNCHANGED <<inputs, timer, appVars, gestureVars, solverVars, fitVars, drawVars>>

\* generateListingImage rejects (no 2d context, or a frame image fails to
\* load, both before toDataURL): the catch block, then the finally block
CompositionFailed(c) ==
    /\ compositions[c].status = "running"
    /\ generateErrors' = generateErrors + 1
    /\ isGenerating' = FALSE
    /\ compositions' = [compositions EXCEPT ![c].status = "failed"]
    /\ UNCHANGED <<inputs, timer, generatedImage,
                   appVars, gestureVars, solverVars, fitVars, drawVars>>

NextGen ==
    \/ InputChange
    \/ TimerFires
    \/ \E c \in 1..Len(compositions) : CompositionDone(c)
    \/ \E c \in 1..Len(compositions) : CompositionFailed(c)

SpecGen == InitGen /\ [][NextGen]_vars

\* inputs have stopped changing and every composition has settled
GenSettled ==
    /\ timer = 0
    /\ \A c \in 1..Len(compositions) : compositions[c].status # "running"

\* the composition of the latest inputs completed
LatestComposed ==
    \E c \in 1..Len(compositions) :
        compositions[c].inputs = inputs /\ compositions[c].status = "done"

\* C3: generation is latest-wins: once inputs stop changing and all
\* compositions have settled, generatedImage is the composition of the
\* latest inputs.
C3_SettledShowsLatest ==
    (GenSettled /\ LatestComposed) => generatedImage = inputs

FailedCompositions ==
    {c \in 1..Len(compositions) : compositions[c].status = "failed"}

\* C14: a composition attempt that fails produces no raster (the shown
\* poster is never the one of a failed attempt), leaves generatedImage as it
\* was, reports the failure once and puts isGenerating back to false.
C14_FailedCompositionKeepsImage ==
    /\ [](/\ \A c \in FailedCompositions : generatedImage # compositions[c].inputs
          /\ generateErrors = Cardinality(FailedCompositions))
    /\ [][\A c \in 1..Len(compositions) :
             CompositionFailed(c) =>
                 /\ generatedImage' = generatedImage
                 /\ generateErrors' = generateErrors + 1
                 /\ ~isGenerating']_vars

\* a composition failed after an earlier one had produced a poster, which is
\* still shown
C14_Witness ==
    \E c \in FailedCompositions :
        /\ generatedImage # 0
        /\ generatedImage < compositions[c].inputs
        /\ ~isGenerating

\* Boolean(generatedImage) && !isGenerating && ..., for a form whose photos,
\* title, price and description are filled in
canDownload == generatedImage # 0 /\ ~isGenerating

RunningCompositions ==
    {c \in 1..Len(compositions) : compositions[c].status = "running"}

\* C29: isGenerating is true in every state in which at least one
\* composition started by handleGenerate has not yet settled, including when
\* several compositions overlap, so Download and Copy are never enabled while
\* a composition is in flight.
C29_GeneratingWhileInFlight ==
    RunningCompositions # {} => (isGenerating /\ ~canDownload)

(***************************************************************************)
(* Photo selection together with poster generation.  handleGenerate is     *)
(* rebuilt, and its timer re-armed, in the render that follows a change of *)
(* isLayoutPending, so a firing timer reads the rendered isLayoutPending.  *)
(***************************************************************************)
InitPending == InitGen

\* the photo sets selected while the poster is being regenerated
PendingSets == {<<2, 1>>}

NextPending ==
    \/ \E files \in PendingSets : SelectImages(files)
    \/ ClearImages
    \/ ResetForm
    \/ \E b \in 1..Len(batches) : BatchPublished(b)
    \/ \E b \in 1..Len(batches) : BatchDiscarded(b)
    \/ \E b \in 1..Len(batches) : BatchFailed(b)
    \/ InputChange
    \/ TimerFires
    \/ \E c \in 1..Len(compositions) : CompositionDone(c)

SpecPending == InitPending /\ [][NextPending]_vars

\* Promise.all of every waiting run of the effect settles
SpecPendingFair == SpecPending /\ WF_batches(PromiseSettles)

\* the run of the layout-preparation effect for the current photo set is
\* waiting for its images
CurrentBatchInFlight ==
    \E b \in 1..Len(batches) :
        batches[b].status = "pending" /\ ~batches[b].cancelled

SupersededBatchSettled ==
    \E b \in 1..Len(batches) :
        batches[b].cancelled /\ batches[b].status \in {"discarded", "failed"}

MaxParagraphs == 2

Paragraphs == {<<>>, <<2>>, <<2, 3>>, <<3, 1, 2>>}
RawTexts == UNION {[1..n -> Paragraphs] : n \in 0..MaxParagraphs}
FitOptions ==
    [maxWidth : {<<4, 1>>, <<12, 1>>},
     maxHeight : {<<0 - 1, 1>>, <<3, 1>>, <<6, 1>>, <<12, 1>>}, maxLines : {0, 1, 2, 3},
     maxFontSize : {2, 3}, minFontSize : {1, 2, 4},
     lineHeightMultiplier : {<<6, 5>>}]

InitFit ==
    /\ fPc = "start"
    /\ fText \in RawTexts
    /\ fOptions \in FitOptions
    /\ fResult = <<>>
    /\ DrawIdle
    /\ AppIdle
    /\ GestureIdle
    /\ SolverIdle
    /\ GenIdle

Fit ==
    /\ fPc = "start"
    /\ fPc' = "done"
    /\ fResult' = fitTextBlock(fText, fOptions)
    /\ UNCHANGED <<fText, fOptions, appVars, gestureVars, solverVars, genVars, drawVars>>

NextFit == Fit

SpecFit == InitFit /\ [][NextFit]_vars

WithinOptions(result, options) ==
    /\ Len(result.lines) <= options.maxLines
    /\ options.minFontSize <= result.fontSize
    /\ result.fontSize <= options.maxFontSize

\* C10 as stated: for every text and every option set fitTextBlock returns
\* lines.length <= maxLines and minFontSize <= fontSize <= maxFontSize.
C10_AnyOptions ==
    fPc = "done" => WithinOptions(fResult, fOptions)

\* C10: for every text and every option set, fitTextBlock returns
\* fontSize >= minFontSize and lines.length <= max(maxLines, 1); when
\* maxLines >= 1 this is lines.length <= maxLines, and when
\* minFontSize <= maxFontSize also fontSize <= maxFontSize (otherwise the
\* loop never runs and fontSize = minFontSize).
C10_WithinOptions ==
    fPc = "done" =>
        /\ fOptions.minFontSize <= fResult.fontSize
        /\ Len(fResult.lines) <= (IF fOptions.maxLines >= 1
                                    THEN fOptions.maxLines ELSE 1)
        /\ IF fOptions.minFontSize <= fOptions.maxFontSize
              THEN fResult.fontSize <= fOptions.maxFontSize
              ELSE fResult.fontSize = fOptions.minFontSize

\* a fit that had to shrink the font and cut the text at maxLines
C10_Witness ==
    /\ fPc = "done"
    /\ fOptions.minFontSize < fOptions.maxFontSize
    /\ fOptions.maxLines >= 1
    /\ fResult.fontSize < fOptions.maxFontSize
    /\ Len(fResult.lines) = fOptions.maxLines
    /\ Len(wrapText(WordsOrBlank(TrimText(fText)), fResult.fontSize,
                    fOptions.maxWidth, 999)) > fOptions.maxLines

\* the text handed to wrapText, and its wrapped lines at one font size
FitWords == WordsOrBlank(TrimText(fText))
LinesAt(size) == wrapText(FitWords, size, fOptions.maxWidth, fOptions.maxLines)

\* (number of wrapped lines at size) * size * lineHeightMultiplier <= maxHeight
HeightFitsAt(size) ==
    Len(LinesAt(size)) * size * fOptions.lineHeightMultiplier[1]
            * fOptions.maxHeight[2]
        <= fOptions.maxHeight[1] * fOptions.lineHeightMultiplier[2]

FittingSizes ==
    {s \in fOptions.minFontSize..fOptions.maxFontSize : HeightFitsAt(s)}

\* the first (largest) fitting size is returned with its wrapped lines; a
\* text that is one line at maxFontSize and fits gets maxFontSize and 1 line
LargestFittingReturned ==
    /\ FittingSizes # {} =>
          /\ fResult.fontSize \in FittingSizes
          /\ \A s \in FittingSizes : s <= fResult.fontSize
          /\ fResult.lines = LinesAt(fResult.fontSize)
    /\ (/\ fOptions.minFontSize <= fOptions.maxFontSize
        /\ Len(LinesAt(fOptions.maxFontSize)) = 1
        /\ HeightFitsAt(fOptions.maxFontSize)) =>
          /\ fResult.fontSize = fOptions.maxFontSize
          /\ Len(fResult.lines) = 1

\* C11 as stated: fitTextBlock returns the largest size in
\* [minFontSize, maxFontSize] whose wrapped block is no taller than maxHeight;
\* when no size fits it returns minFontSize with that size's wrapped lines.
C11_LargestFitOrWrappedFallback ==
    fPc = "done" =>
        /\ LargestFittingReturned
        /\ FittingSizes = {} =>
              /\ fResult.fontSize = fOptions.minFontSize
              /\ fResult.lines = LinesAt(fOptions.minFontSize)

\* C11: fitTextBlock returns the largest size in [minFontSize, maxFontSize]
\* whose wrapped block is no taller than maxHeight, with that size's wrapped
\* lines; when no size fits it returns minFontSize with that size's wrapped
\* lines, or with the single empty line if wrapping produced no line at all.
C11_LargestFitOrFallback ==
    fPc = "done" =>
        /\ LargestFittingReturned
        /\ FittingSizes = {} =>
              /\ fResult.fontSize = fOptions.minFontSize
              /\ fResult.lines = (IF LinesAt(fOptions.minFontSize) = <<>>
                                  THEN <<0>>
                                  ELSE LinesAt(fOptions.minFontSize))

\* a fit that skipped maxFontSize and stopped at a smaller size that fits
C11_Witness ==
    /\ fPc = "done"
    /\ FittingSizes # {}
    /\ ~HeightFitsAt(fOptions.maxFontSize)
    /\ fOptions.minFontSize < fResult.fontSize
    /\ fResult.fontSize < fOptions.maxFontSize
    /\ Len(fResult.lines) > 1

(***************************************************************************)
(* Typography runs: the text column of one listing, computed for the live  *)
(* preview and for the export                                              *)
(***************************************************************************)
Titles == {<< <<5>> >>, << <<8, 9, 7>> >>, << <<12, 11, 9, 10>> >>}
PriceLabels == {5, 14}
Locations == {<< <<6>> >>, << <<9, 8>> >>}
Descriptions ==
    {<< <<4>> >>, << <<6, 7, 5, 8, 6, 7, 9, 5>> >>, << <<5, 6>>, <<>>, <<7, 4, 6>> >>,
     << [i \in 1..14 |-> 7] >>, << [i \in 1..24 |-> 6] >>}
AreaWidths == {<<480, 1>>, <<960, 1>>, <<1280, 1>>}
PreviewHeights == {<<375, 1>>, <<600, 1>>}

\* the props shared by ListingPreview and generateListingImage
Listings ==
    [title : Titles, priceChars : PriceLabels, location : Locations,
     photoAreaWidth : AreaWidths, previewHeight : PreviewHeights]

InitTypo ==
    /\ fPc = "start"
    /\ fText \in Descriptions
    /\ fOptions \in Listings
    /\ fResult = <<>>
    /\ DrawIdle
    /\ AppIdle
    /\ GestureIdle
    /\ SolverIdle
    /\ GenIdle

\* the typography memo of ListingPreview and the text metrics of
\* generateListingImage, for the same listing
ComputeTypography ==
    /\ fPc = "start"
    /\ fPc' = "done"
    /\ fResult' =
          [preview |-> PreviewTypography(fOptions.title, fOptions.priceChars,
                                         fOptions.location, fText,
                                         fOptions.photoAreaWidth,
                                         fOptions.previewHeight),
           export |-> ExportTypography(fOptions.title, fOptions.priceChars,
                                       fOptions.location, fText,
                                       fOptions.photoAreaWidth)]
    /\ UNCHANGED <<fText, fOptions, appVars, gestureVars, solverVars, genVars, drawVars>>

NextTypo == ComputeTypography

SpecTypo == InitTypo /\ [][NextTypo]_vars

\* C15: for the same title, price label, location, description and
\* photoAreaWidth, the typography of the live preview equals the typography
\* of the export multiplied by previewHeight / CANVAS_HEIGHT.
C15_PreviewIsScaledExport ==
    fPc = "done" =>
        fResult.preview =
            ScaledTypography(fResult.export,
                             RDiv(fOptions.previewHeight, CanvasHeight))

\* the description options of the export and of the preview for the listing
\* of a typography run, and the first fit made with them
ExportDescriptionOptions ==
    DescriptionOptions(ExportInnerWidth(fOptions.photoAreaWidth),
                       RemainingHeight(fResult.export.title,
                                       fResult.export.price.lineHeight),
                       ExportDescriptionMultiplier)

PreviewScale == RDiv(RMax(fOptions.previewHeight, One), CanvasHeight)

PreviewCanvasTitle ==
    fitTextBlock(fOptions.title,
                 TitleOptions(PreviewInnerWidth(fOptions.photoAreaWidth),
                              RMax(<<CANVAS_HEIGHT - 2 * PADDING_Y, 1>>, <<80, 1>>)))

PreviewDescriptionOptions ==
    DescriptionOptions(PreviewInnerWidth(fOptions.photoAreaWidth),
                       RemainingHeight(PreviewCanvasTitle,
                                       RDiv(fResult.preview.price.lineHeight,
                                            PreviewScale)),
                       PreviewDescriptionMultiplier)

\* the fit a description ends with, compared with its first fit: a different
\* result only for a first fit below 65% of the budget, a size not below the
\* first fit's and not above 56, a block height within the budget, and one
\* re-fit at most
BackfillOnce(first, final, options, scale) ==
    /\ final # ScaledFit(first, scale) =>
          /\ RLt(BlockHeight(first), RMul(<<13, 20>>, options.maxHeight))
          /\ first.fontSize < 56
    /\ RLe(RMul(<<first.fontSize, 1>>, scale), final.fontSize)
    /\ RLe(final.fontSize, RMul(<<56, 1>>, scale))
    /\ RLe(BlockHeight(first), options.maxHeight) =>
          RLe(BlockHeight(final), RMul(options.maxHeight, scale))
    /\ \/ final = ScaledFit(first, scale)
       \/ \E size \in (first.fontSize + 1)..56 :
             final = ScaledFit(fitTextBlock(fText, [options EXCEPT !.maxFontSize = size]),
                               scale)

\* C23: the description backfill is single-pass: the description is re-fitted
\* at most once, only when the first fit's block height is below 65% of the
\* height budget and a larger size is feasible; the final font size is never
\* below the first fit's, never above 56 canvas pixels, and the final block
\* height does not exceed the height budget.
C23_BackfillSinglePass ==
    fPc = "done" =>
        /\ BackfillOnce(fitTextBlock(fText, ExportDescriptionOptions),
                        ScaledFit(fResult.export.description, One),
                        ExportDescriptionOptions, One)
        /\ BackfillOnce(fitTextBlock(fText, PreviewDescriptionOptions),
                        fResult.preview.description,
                        PreviewDescriptionOptions, PreviewScale)

\* a short description was first fitted at 44 and is drawn at 56 after the
\* backfill
C23_Witness ==
    /\ fPc = "done"
    /\ fitTextBlock(fText, ExportDescriptionOptions).fontSize = 44
    /\ fResult.export.description.fontSize = 56
    /\ fResult.preview.description.fontSize = RMul(<<56, 1>>, PreviewScale)

(***************************************************************************)
(* Photo upload: components/ImageUpload.tsx, whose onImagesChange is the   *)
(* page's setImages                                                        *)
(***************************************************************************)
MaxSelection == 2

\* file.type of the files a user can pick or drop, as <<type, subtype>>:
\* the photos of FileAspects, a PDF and a text file
FileTypes ==
    <<<<"image", "jpeg">>, <<"image", "png">>, <<"image", "webp">>,
      <<"application", "pdf">>, <<"text", "plain">>>>
UploadFiles == 1..Len(FileTypes)

\* file.type.startsWith('image/')
IsImage(file) == FileTypes[file][1] = "image"

\* a filter that lets every file through
AnyFiles(files) == files

\* files.filter(file => file.type.startsWith('image/'))
ValidFiles(files) == SelectSeq(files, IsImage)

\* [...images, ...validFiles].slice(0, 4)
NewImages(list, files) ==
    SubSeq(list \o ValidFiles(files), 1,
           IF Len(list \o ValidFiles(files)) < MAX_PHOTOS
           THEN Len(list \o ValidFiles(files)) ELSE MAX_PHOTOS)

\* what a file dialog or a drop can deliver
Selections == UNION {[1..n -> UploadFiles] : n \in 0..MaxSelection}

InitUpload ==
    /\ AppIdle
    /\ GestureIdle
    /\ SolverIdle
    /\ GenIdle
    /\ FitIdle
    /\ DrawIdle

\* handleFileChange
FileChange(files) ==
    /\ images' = NewImages(images, files)
    /\ UNCHANGED <<frames, photoAreaWidth, hasCustomLayout, isLayoutPending, batches,
                   layoutErrors, urlVars, gestureVars, solverVars, genVars, fitVars, drawVars>>

\* handleDrop
Drop(files) ==
    /\ images' = NewImages(images, files)
    /\ UNCHANGED <<frames, photoAreaWidth, hasCustomLayout, isLayoutPending, batches,
                   layoutErrors, urlVars, gestureVars, solverVars, genVars, fitVars, drawVars>>

\* removeImage
RemoveImage(index) ==
    /\ images' = [i \in 1..(Len(images) - 1) |->
                     IF i < index THEN images[i] ELSE images[i + 1]]
    /\ UNCHANGED <<frames, photoAreaWidth, hasCustomLayout, isLayoutPending, batches,
                   layoutErrors, urlVars, gestureVars, solverVars, genVars, fitVars, drawVars>>

NextUpload ==
    \/ \E files \in Selections : FileChange(files)
    \/ \E files \in Selections : Drop(files)
    \/ \E index \in 1..Len(images) : RemoveImage(index)
    \/ ResetForm

SpecUpload == InitUpload /\ [][NextUpload]_vars

\* C18: after any sequence of file-select, drop and remove operations the
\* selected photo list holds at most 4 files, all of an image/ MIME type, so
\* the layout-preparation effect hands computeOptimalLayout at most 4 ratios.
C18_AtMostFourImages ==
    /\ Len(images) <= 4
    /\ \A i \in 1..Len(images) : FileTypes[images[i]][1] = "image"

\* the list is full and holds the same photo twice
C18_Witness ==
    /\ Len(images) = 4
    /\ images[1] = 3
    /\ images[4] = 3
    /\ images[2] # images[3]

(***************************************************************************)
(* Solver runs on degenerate input: zero, negative and tiny aspect ratios  *)
(***************************************************************************)
DegenerateRatios == {Zero, <<0 - 1, 2>>, <<1, 20>>, One}
DegenerateQuad == <<Zero, <<0 - 1, 1>>, One, <<1, 20>>>>

InitDegenerate ==
    /\ sPc = "start"
    /\ \/ /\ \E n \in 1..(MAX_PHOTOS - 1) : sIn \in [1..n -> DegenerateRatios]
          /\ sBox \in Boxes
       \/ /\ sIn = DegenerateQuad
          /\ sBox = QuadBox
    /\ sOut = NoSolution
    /\ sPerm = <<>>
    /\ sPermOut = NoSolution
    /\ AppIdle
    /\ GestureIdle
    /\ GenIdle
    /\ FitIdle
    /\ DrawIdle

NextDegenerate == Solve

SpecDegenerate == InitDegenerate /\ [][NextDegenerate]_vars

\* the list with every ratio below one tenth replaced by one tenth
FlooredAtTenth(list) ==
    [i \in 1..Len(list) |-> IF RLt(list[i], <<1, 10>>) THEN <<1, 10>> ELSE list[i]]

\* C19: for every list of 1 to 4 aspect ratios, zero and negative ones
\* included, computeOptimalLayout returns one rect per photo, each of
\* strictly positive width and height, and a multi-photo layout is the one
\* of the list with every ratio below 0.1 replaced by 0.1.
C19_DegenerateRatiosFloored ==
    sPc = "solved" =>
        /\ Len(sOut.rects) = Len(sIn)
        /\ \A k \in 1..Len(sOut.rects) :
              /\ sOut.rects[k].index = k - 1
              /\ RLt(Zero, sOut.rects[k].width)
              /\ RLt(Zero, sOut.rects[k].height)
        /\ Len(sIn) >= 2 =>
              sOut = computeOptimalLayout(FlooredAtTenth(sIn), sBox[1], sBox[2])

\* a solve of three photos with a zero, a negative and a tiny ratio
C19_Witness ==
    /\ sPc = "solved"
    /\ Len(sIn) = 3
    /\ sIn[1] = Zero
    /\ sIn[2][1] < 0
    /\ sIn[3] = <<1, 20>>
    /\ Len(sOut.rects) = 3

(***************************************************************************)
(* Compositor: the frame loop of generateListingImage                      *)
(***************************************************************************)
\* Math.min(Math.max(photoAreaWidth, 1), CANVAS_WIDTH * (2 / 3))
clampedPhotoWidth(areaWidth) ==
    RMin(RMax(areaWidth, One), RMul(CanvasWidth, <<2, 3>>))

\* layoutX, layoutY, layoutWidth, layoutHeight of a frame
FrameRect(frame, areaWidth) ==
    [x |-> RMul(frame.layout.x, clampedPhotoWidth(areaWidth)),
     y |-> RMul(frame.layout.y, CanvasHeight),
     width |-> RMul(frame.layout.width, clampedPhotoWidth(areaWidth)),
     height |-> RMul(frame.layout.height, CanvasHeight)]

\* the 0.001 tolerance under which the image is drawn into the frame as it is
ASPECT_TOLERANCE == <<1, 1000>>

\* drawX, drawY, drawWidth, drawHeight for a frame rect and an image aspect
DrawRectIn(rect, frameAspect, imageAspect) ==
    IF ~RLt(ASPECT_TOLERANCE, RAbs(RSub(frameAspect, imageAspect)))
    THEN rect
    ELSE IF RLt(frameAspect, imageAspect)
    THEN [x |-> rect.x,
          y |-> RAdd(rect.y, RDiv(RSub(rect.height, RDiv(rect.width, imageAspect)), Two)),
          width |-> rect.width,
          height |-> RDiv(rect.width, imageAspect)]
    ELSE [x |-> RAdd(rect.x, RDiv(RSub(rect.width, RMul(rect.height, imageAspect)), Two)),
          y |-> rect.y,
          width |-> RMul(rect.height, imageAspect),
          height |-> rect.height]

\* the rectangle ctx.drawImage is given for a frame and its loaded image
DrawRect(rect, imageAspect) ==
    DrawRectIn(rect, RDiv(rect.width, rect.height), imageAspect)

\* the photo sets of the compositor runs
MaxDrawn == 3
DrawSets == UNION {[1..n -> Files] : n \in 1..MaxDrawn}

\* a page whose photo set has been laid out, when a composition starts
InitDraw ==
    /\ images \in DrawSets
    /\ frames = WithSrc(PreparedLayout(images)[1], BatchUrls(1, images))
    /\ photoAreaWidth = PreparedLayout(images)[2]
    /\ hasCustomLayout = FALSE
    /\ isLayoutPending = FALSE
    /\ batches = <<[files |-> images, cancelled |-> FALSE, status |-> "published",
                    previousUrls |-> <<>>]>>
    /\ layoutErrors = 0
    /\ objectUrls = Range(BatchUrls(1, images))
    /\ previousUrlsRef = BatchUrls(1, images)
    /\ dPc = "start"
    /\ dIn = <<>>
    /\ dOut = <<>>
    /\ GestureIdle
    /\ SolverIdle
    /\ GenIdle
    /\ FitIdle

\* one turn of loadedFrames.forEach: the next frame is filled and drawn
DrawFrame ==
    /\ dPc = "start"
    /\ Len(dOut) < Len(frames)
    /\ dOut' = Append(dOut,
                      DrawRect(FrameRect(frames[Len(dOut) + 1], photoAreaWidth),
                               AspectOf(images[Len(dOut) + 1])))
    /\ dPc' = IF Len(dOut) + 1 = Len(frames) THEN "done" ELSE "start"
    /\ UNCHANGED <<dIn, appVars, gestureVars, solverVars, genVars, fitVars>>

NextDraw == DrawFrame

SpecDraw == InitDraw /\ [][NextDraw]_vars

\* the frame rectangle the k-th draw was made for
DrawnFrameRect(k) == FrameRect(frames[k], photoAreaWidth)

\* the draw rectangle has the image's natural aspect ratio
KeepsImageAspect(k) ==
    RDiv(dOut[k].width, dOut[k].height) = AspectOf(images[k])

\* the draw rectangle and the frame rectangle have the same centre
CentredOnFrame(k) ==
    /\ RAdd(RMul(Two, dOut[k].x), dOut[k].width)
           = RAdd(RMul(Two, DrawnFrameRect(k).x), DrawnFrameRect(k).width)
    /\ RAdd(RMul(Two, dOut[k].y), dOut[k].height)
           = RAdd(RMul(Two, DrawnFrameRect(k).y), DrawnFrameRect(k).height)

\* the draw rectangle covers the frame rectangle, exactly on one axis at least
CoversFrame(k) ==
    /\ RLe(DrawnFrameRect(k).width, dOut[k].width)
    /\ RLe(DrawnFrameRect(k).height, dOut[k].height)
    /\ \/ dOut[k].width = DrawnFrameRect(k).width
       \/ dOut[k].height = DrawnFrameRect(k).height

\* C21: every frame's image is drawn cover-fit: the draw rectangle keeps the
\* image's natural aspect ratio, is centred on the frame rectangle and covers
\* it (draw width >= frame width, draw height >= frame height, equal on at
\* least one axis).
C21_DrawnCoverFit ==
    \A k \in 1..Len(dOut) :
        /\ KeepsImageAspect(k)
        /\ CentredOnFrame(k)
        /\ CoversFrame(k)

(***************************************************************************)
(* Wrap runs: wrapText on a text, a width and a line limit                  *)
(***************************************************************************)
MaxWrapParagraphs == 3

\* text.split(/\r?\n/) always has at least one paragraph
WrapTexts == UNION {[1..n -> Paragraphs] : n \in 1..MaxWrapParagraphs}
WrapOptions ==
    [maxWidth : {<<4, 1>>, <<12, 1>>}, maxLines : {0, 1, 2, 3, 8}, size : {1, 2}]

InitWrap ==
    /\ fPc = "start"
    /\ fText \in WrapTexts
    /\ fOptions \in WrapOptions
    /\ fResult = <<>>
    /\ DrawIdle
    /\ AppIdle
    /\ GestureIdle
    /\ SolverIdle
    /\ GenIdle

\* wrapText(ctx, text, maxWidth, maxLines) with the font set to size
Wrap ==
    /\ fPc = "start"
    /\ fPc' = "done"
    /\ fResult' = wrapText(fText, fOptions.size, fOptions.maxWidth, fOptions.maxLines)
    /\ UNCHANGED <<fText, fOptions, appVars, gestureVars, solverVars, genVars, drawVars>>

NextWrap == Wrap

SpecWrap == InitWrap /\ [][NextWrap]_vars

\* the number of empty lines of a wrapped text
EmptyLines(lines) == Cardinality({k \in 1..Len(lines) : lines[k] = 0})

\* the number of blank paragraphs of a text
BlankParagraphs(text) == Cardinality({i \in 1..Len(text) : text[i] = <<>>})

\* C22: wrapText never returns more than maxLines lines, and when maxLines
\* is not reached its output has one empty line for each blank paragraph of
\* the input and no other empty line (a newline between two non-empty
\* paragraphs only starts a new line).
C22_EmptyLinePerBlankParagraph ==
    fPc = "done" =>
        /\ Len(fResult) <= fOptions.maxLines
        /\ Len(fResult) < fOptions.maxLines =>
               EmptyLines(fResult) = BlankParagraphs(fText)

(***************************************************************************)
(* Description paragraphs: the fitted lines regrouped by ListingPreview     *)
(***************************************************************************)
MAX_DESCRIPTION_PARAGRAPHS == 8

RECURSIVE GroupLines(_, _, _, _)
\* typography.description.lines.forEach, then the push of the open paragraph
GroupLines(lines, k, current, paragraphs) ==
    IF k > Len(lines)
    THEN IF Len(current) > 0 THEN Append(paragraphs, current) ELSE paragraphs
    ELSE IF lines[k] = 0
    THEN IF Len(current) > 0
         THEN GroupLines(lines, k + 1, <<>>, Append(paragraphs, current))
         ELSE GroupLines(lines, k + 1, <<>>, Append(paragraphs, <<>>))
    ELSE GroupLines(lines, k + 1, Append(current, lines[k]), paragraphs)

RECURSIVE PopEmptyTail(_)
\* while (paragraphs.length > 1 && last paragraph is empty) paragraphs.pop()
PopEmptyTail(paragraphs) ==
    IF Len(paragraphs) > 1 /\ paragraphs[Len(paragraphs)] = <<>>
    THEN PopEmptyTail(SubSeq(paragraphs, 1, Len(paragraphs) - 1))
    ELSE paragraphs

\* (index > 0 || tail.length > 0) && tail[tail.length - 1] !== ''
NeedsBreak(tail, index) ==
    /\ index > 0 \/ Len(tail) > 0
    /\ Len(tail) = 0 \/ tail[Len(tail)] # 0

\* a fold that keeps only the first overflow paragraph
FoldFirstOnly(tail, overflow, index) ==
    IF Len(overflow) = 0 THEN tail ELSE tail \o <<0>> \o overflow[1]

RECURSIVE FoldOverflow(_, _, _)
\* overflow.forEach((segment, index) => ...) on the last kept paragraph
FoldOverflow(tail, overflow, index) ==
    IF index >= Len(overflow) THEN tail
    ELSE IF overflow[index + 1] = <<>>
    THEN FoldOverflow(Append(tail, 0), overflow, index + 1)
    ELSE FoldOverflow((IF NeedsBreak(tail, index) THEN Append(tail, 0) ELSE tail)
                          \o overflow[index + 1],
                      overflow, index + 1)

\* the branch for more than MAX_DESCRIPTION_PARAGRAPHS paragraphs
LimitedParagraphs(paragraphs) ==
    [SubSeq(paragraphs, 1, MAX_DESCRIPTION_PARAGRAPHS)
        EXCEPT ![MAX_DESCRIPTION_PARAGRAPHS] =
            FoldOverflow(paragraphs[MAX_DESCRIPTION_PARAGRAPHS],
                         SubSeq(paragraphs, MAX_DESCRIPTION_PARAGRAPHS + 1,
                                Len(paragraphs)),
                         0)]

\* the paragraphs after the trailing empty ones are popped
CappedParagraphs(paragraphs) ==
    IF Len(paragraphs) > MAX_DESCRIPTION_PARAGRAPHS THEN LimitedParagraphs(paragraphs)
    ELSE IF Len(paragraphs) = 0 THEN << <<>> >>
    ELSE paragraphs

\* the descriptionParagraphs memo
descriptionParagraphs(lines) ==
    CappedParagraphs(PopEmptyTail(GroupLines(lines, 1, <<>>, <<>>)))

\* the descriptions of the regrouping runs: up to MaxRegrouped paragraphs,
\* blank or of one or two words, trimmed as fitTextBlock trims them
MaxRegrouped == 10
RegroupParagraphs == {<<>>, <<1>>, <<2, 1>>}
RegroupTexts ==
    {text \in UNION {[1..n -> RegroupParagraphs] : n \in 1..MaxRegrouped} :
        text[1] # <<>> /\ text[Len(text)] # <<>>}

\* the fitted lines of a description whose words each take a line of their own
InitRegroup ==
    /\ dPc = "start"
    /\ dIn \in {wrapText(text, 1, <<2, 1>>, 60) : text \in RegroupTexts} \cup {<<0>>}
    /\ dOut = <<>>
    /\ AppIdle
    /\ GestureIdle
    /\ SolverIdle
    /\ GenIdle
    /\ FitIdle

Regroup ==
    /\ dPc = "start"
    /\ dPc' = "done"
    /\ dOut' = descriptionParagraphs(dIn)
    /\ UNCHANGED <<dIn, appVars, gestureVars, solverVars, genVars, fitVars>>

NextRegroup == Regroup

SpecRegroup == InitRegroup /\ [][NextRegroup]_vars

RECURSIVE Concat(_)
\* the lines of a list of paragraphs, in order
Concat(paragraphs) ==
    IF Len(paragraphs) = 0 THEN <<>>
    ELSE Head(paragraphs) \o Concat(Tail(paragraphs))

IsLine(line) == line # 0

\* the paragraphs of the fitted lines before the cap
GroupedLines == PopEmptyTail(GroupLines(dIn, 1, <<>>, <<>>))

\* C24: regrouping the fitted lines yields between 1 and 8 paragraphs whose
\* non-empty lines, taken in order, are exactly the non-empty fitted lines in
\* their original order; paragraphs beyond the eighth are folded into the
\* eighth.
C24_RegroupKeepsLines ==
    dPc = "done" =>
        /\ Len(dOut) \in 1..MAX_DESCRIPTION_PARAGRAPHS
        /\ SelectSeq(Concat(dOut), IsLine) = SelectSeq(dIn, IsLine)
        /\ Len(GroupedLines) > MAX_DESCRIPTION_PARAGRAPHS =>
              /\ \A p \in 1..(MAX_DESCRIPTION_PARAGRAPHS - 1) : dOut[p] = GroupedLines[p]
              /\ SelectSeq(dOut[MAX_DESCRIPTION_PARAGRAPHS], IsLine)
                     = SelectSeq(Concat(SubSeq(GroupedLines, MAX_DESCRIPTION_PARAGRAPHS,
                                               Len(GroupedLines))),
                                 IsLine)

\* ten paragraphs were regrouped: the eighth holds the lines of the last three
C24_Witness ==
    /\ dPc = "done"
    /\ Len(GroupedLines) = MAX_DESCRIPTION_PARAGRAPHS + 2
    /\ Len(dOut) = MAX_DESCRIPTION_PARAGRAPHS
    /\ Len(SelectSeq(dOut[MAX_DESCRIPTION_PARAGRAPHS], IsLine)) >= 3

(***************************************************************************)
(* Words kept by a fit                                                     *)
(***************************************************************************)
RECURSIVE FlattenWords(_)
\* the words of a text, paragraph after paragraph
FlattenWords(text) ==
    IF text = <<>> THEN <<>> ELSE Head(text) \o FlattenWords(Tail(text))

RECURSIVE JoinedLength(_)
\* the length of words.join(' ')
JoinedLength(words) ==
    IF words = <<>> THEN 0
    ELSE IF Len(words) = 1 THEN Head(words)
    ELSE Head(words) + 1 + JoinedLength(Tail(words))

RECURSIVE LinesHoldWords(_, _)
\* the non-empty lines are the words, in order, joined by single spaces
LinesHoldWords(lines, words) ==
    IF lines = <<>> THEN words = <<>>
    ELSE IF Head(lines) = 0 THEN LinesHoldWords(Tail(lines), words)
    ELSE \E k \in 1..Len(words) :
            /\ JoinedLength(SubSeq(words, 1, k)) = Head(lines)
            /\ LinesHoldWords(Tail(lines), SubSeq(words, k + 1, Len(words)))

SizesShowingAll ==
    {s \in fOptions.minFontSize..fOptions.maxFontSize :
        /\ HeightFitsAt(s)
        /\ LinesHoldWords(LinesAt(s), FlattenWords(TrimText(fText)))}

NoDropWhileSmallerShowsAll ==
    (fPc = "done" /\ SizesShowingAll # {}) =>
        LinesHoldWords(fResult.lines, FlattenWords(TrimText(fText)))

====
